---- MODULE Spec2Model ----
(***************************************************************************)
(* A model of fairscale's OSS optimizer (fairscale/optim/oss.py): the      *)
(* greedy partition of the parameters over the ranks, the step protocol    *)
(* with its bucketed broadcasts, and the consolidation of the sharded      *)
(* optimizer state.  Every rank is a process holding its own OSS object;   *)
(* the ranks share nothing and meet only in the collectives.               *)
(***************************************************************************)
EXTENDS Integers, Sequences, FiniteSets, TLC

\* ------------------------------------------------------------------ bounds
MaxParams == 3
MaxWorld == 2

\* The parameters that exist in the model, by identity.
Params == 1..MaxParams
\* Element counts a parameter may have (param.numel()).
Numels == {1, 2, 10}
\* Devices a parameter may live on (param.device).
Devices == {"cpu", "cuda"}
\* Values of the broadcast_buffer_size constructor argument.
BufferSizes == {4}
\* Values of the lr hyperparameter.
LrValues == {1, 2}
\* Process groups: the default one, and one whose members are not the
\* global ranks 0..world_size-1.
Groups == {"WORLD", "custom"}

VARIABLES
    world_size,             \* dist.get_world_size(group)
    numel,                  \* p.numel() of every parameter
    device,                 \* p.device of every parameter
    broadcast_buffer_size,  \* the constructor's argument
    params,                 \* the constructor's params argument: the global groups
    pc,                     \* per rank: where the rank's program stands
    param_groups,           \* per rank: self.param_groups
    _partition_parameters,  \* per rank: self._partition_parameters
    _per_device_params,     \* per rank: self._per_device_params
    _param_rank,            \* per rank: self._param_rank
    optim,                  \* per rank: self.optim (param_groups and state)
    _all_states,            \* per rank: self._all_states
    _device,                \* per rank: self._device
    _broadcast_buffers,     \* per rank: self._broadcast_buffers
    group,                  \* the constructor's group argument
    data,                   \* per rank: p.data of every parameter, its elements
    grad,                   \* per rank: whether p.grad is set
    steps,                  \* per rank: the step() calls that returned
    issued,                 \* per rank: the dist.broadcast calls issued, in order
    bucket_requests,        \* per rank: _broadcast_params' bucket_requests
    direct_requests,        \* per rank: _broadcast_params' direct_requests
    dev,                    \* per rank: the entry of per_device_params in progress
    step_start,             \* per rank: the calls issued before the last step() began
    objects,                \* per rank: the broadcast_object calls issued, in order
    recipient_rank,         \* per rank: consolidate_state_dict's argument
    all_states,             \* per rank: _collect_sharded_states' all_states
    turn,                   \* per rank: the rank whose turn the consolidation is at
    consolidations,         \* per rank: the consolidate_state_dict() calls begun
    checkpoints,            \* the dicts state_dict() returned that were kept, and by which rank
    loads,                  \* per rank: the checkpoints load_state_dict() was called with
    pipeline_group,         \* get_pipeline_parallel_group(): the global ranks of its members
    wrapper,                \* per process: the PipeRPCWrapper under construction
    PipeModel,              \* per process: the global PipeModel of rpc.py
    rpc_calls               \* the rpc.rpc_async calls issued, in order

vars == <<world_size, numel, device, broadcast_buffer_size, params, pc,
          param_groups, _partition_parameters, _per_device_params, _param_rank,
          optim, _all_states, _device, _broadcast_buffers, group, data, grad,
          steps, issued, bucket_requests, direct_requests, dev, step_start,
          objects, recipient_rank, all_states, turn, consolidations,
          checkpoints, loads, pipeline_group, wrapper, PipeModel, rpc_calls>>

config == <<world_size, numel, device, broadcast_buffer_size, params, group>>

\* What step() alone touches.
stepvars == <<data, grad, steps, issued, bucket_requests, direct_requests, dev,
              step_start>>

\* What consolidate_state_dict() alone touches.
consvars == <<_all_states, objects, recipient_rank, all_states, turn,
              consolidations>>

\* What saving and loading checkpoints alone touches.
loadvars == <<checkpoints, loads>>

\* What the optimizer touches: everything but the PipeRPCWrapper.
vars_oss == <<world_size, numel, device, broadcast_buffer_size, params, pc,
              param_groups, _partition_parameters, _per_device_params, _param_rank,
              optim, _all_states, _device, _broadcast_buffers, group, data, grad,
              steps, issued, bucket_requests, direct_requests, dev, step_start,
              objects, recipient_rank, all_states, turn, consolidations,
              checkpoints, loads>>

\* What the construction of a PipeRPCWrapper alone touches.
pipevars == <<pipeline_group, wrapper, PipeModel, rpc_calls>>

Ranks == 0..(world_size - 1)

\* ----------------------------------------------------------------- helpers
RECURSIVE SumSeq(_)
SumSeq(s) == IF s = <<>> THEN 0 ELSE Head(s) + SumSeq(Tail(s))

RECURSIVE Flatten(_)
Flatten(ss) == IF ss = <<>> THEN <<>> ELSE Head(ss) \o Flatten(Tail(ss))

Range(s) == {s[i] : i \in DOMAIN s}

Max(a, b) == IF a >= b THEN a ELSE b

\* A group dict without its "params" entry: the hyperparameters.
HyperKeys(param_group) == DOMAIN param_group \ {"params"}

\* All the parameters of a list of groups, in traversal order.
GroupParams(groups) == Flatten([i \in DOMAIN groups |-> groups[i]["params"]])

\* ------------------------------------------------- partition_parameters
\* Mutant of ArgMin: the last rank of minimal size, not the first.
ArgMin_last(sizes) ==
    CHOOSE r \in DOMAIN sizes :
        /\ \A k \in DOMAIN sizes : sizes[r] <= sizes[k]
        /\ \A k \in DOMAIN sizes : k > r => sizes[k] > sizes[r]

\* sizes.index(min(sizes)): the first rank whose running size is minimal.
ArgMin(sizes) ==
    CHOOSE r \in DOMAIN sizes :
        /\ \A k \in DOMAIN sizes : sizes[r] <= sizes[k]
        /\ \A k \in DOMAIN sizes : k < r => sizes[k] > sizes[r]

\* Mutant of PlaceParam: on a tie the calling rank keeps the param.
PlaceParam_prefer_self(self, acc, param) ==
    LET rank == IF \A k \in DOMAIN acc.sizes : acc.sizes[self] <= acc.sizes[k]
                THEN self ELSE ArgMin(acc.sizes) IN
    [sizes |-> [acc.sizes EXCEPT ![rank] = @ + numel[param]],
     param_lists |-> [acc.param_lists EXCEPT ![rank] = Append(@, param)]]

\* The body of the loop over a group's params: the param goes to the rank
\* of smallest size, whose size grows by the param's element count.
PlaceParam(self, acc, param) ==
    LET rank == ArgMin(acc.sizes) IN
    [sizes |-> [acc.sizes EXCEPT ![rank] = @ + numel[param]],
     param_lists |-> [acc.param_lists EXCEPT ![rank] = Append(@, param)]]

RECURSIVE PlaceParams(_, _, _)
PlaceParams(self, acc, ps) ==
    IF ps = <<>> THEN acc
    ELSE PlaceParams(self, PlaceParam(self, acc, Head(ps)), Tail(ps))

\* Mutant of PartitionGroup: param_lists is not emptied between groups.
PartitionGroup_keep_lists(self, acc, param_group) ==
    LET placed == PlaceParams(self,
                              [sizes |-> acc.sizes,
                               param_lists |->
                                   [rank \in Ranks |->
                                       IF acc.partition[rank] = <<>> THEN <<>>
                                       ELSE acc.partition[rank][Len(acc.partition[rank])]["params"]]],
                              param_group["params"])
    IN  [sizes |-> placed.sizes,
         partition |->
            [rank \in Ranks |->
                Append(acc.partition[rank],
                       [param_group EXCEPT !["params"] = placed.param_lists[rank]])]]

\* Mutant of PartitionGroup: the sizes start at 0 again for every group.
PartitionGroup_reset_sizes(self, acc, param_group) ==
    LET placed == PlaceParams(self,
                              [sizes |-> [rank \in Ranks |-> 0],
                               param_lists |-> [rank \in Ranks |-> <<>>]],
                              param_group["params"])
    IN  [sizes |-> placed.sizes,
         partition |->
            [rank \in Ranks |->
                Append(acc.partition[rank],
                       [param_group EXCEPT !["params"] = placed.param_lists[rank]])]]

\* One iteration of the loop over the groups: fresh param_lists, the sizes
\* carried over, and one copy of the group per rank with the rank's params.
PartitionGroup(self, acc, param_group) ==
    LET placed == PlaceParams(self,
                              [sizes |-> acc.sizes,
                               param_lists |-> [rank \in Ranks |-> <<>>]],
                              param_group["params"])
    IN  [sizes |-> placed.sizes,
         partition |->
            [rank \in Ranks |->
                Append(acc.partition[rank],
                       [param_group EXCEPT !["params"] = placed.param_lists[rank]])]]

\* A loop over the groups that places the params of the later groups
\* first: C30 tells it from PartitionGroups.
RECURSIVE PartitionGroups_last_first(_, _, _)
PartitionGroups_last_first(self, acc, groups) ==
    IF groups = <<>> THEN acc
    ELSE LET rest == PartitionGroups_last_first(self, acc, Tail(groups))
             placed == PlaceParams(self,
                                   [sizes |-> rest.sizes,
                                    param_lists |-> [rank \in Ranks |-> <<>>]],
                                   Head(groups)["params"])
         IN  [sizes |-> placed.sizes,
              partition |->
                 [rank \in Ranks |->
                     <<[Head(groups) EXCEPT !["params"] = placed.param_lists[rank]]>>
                         \o rest.partition[rank]]]

RECURSIVE PartitionGroups(_, _, _)
PartitionGroups(self, acc, groups) ==
    IF groups = <<>> THEN acc
    ELSE PartitionGroups(self, PartitionGroup(self, acc, Head(groups)), Tail(groups))

\* partition_parameters(): the cached partition, computed when the cache is
\* empty.  cache is self._partition_parameters, groups is self.param_groups.
partition_parameters(self, cache, groups) ==
    IF DOMAIN cache = {}
    THEN PartitionGroups(self,
                         [sizes |-> [rank \in Ranks |-> 0],
                          partition |-> [rank \in Ranks |-> <<>>]],
                         groups).partition
    ELSE cache

\* param_to_rank: the cached map, computed from the partition when empty.
param_to_rank(cache, partition) ==
    IF DOMAIN cache = {}
    THEN LET owned(rank) == Range(GroupParams(partition[rank]))
             all == UNION {owned(rank) : rank \in DOMAIN partition}
         IN  [p \in all |->
                 \* a later rank overwrites an earlier one
                 CHOOSE rank \in DOMAIN partition :
                     /\ p \in owned(rank)
                     /\ \A k \in DOMAIN partition : p \in owned(k) => k <= rank]
    ELSE cache

\* A sort that leaves the list as it is: C26 tells it from SortByNumel.
SortByNumel_none(ps) == ps

\* list.sort(key=numel): a stable sort by element count.
RECURSIVE InsertSorted(_, _)
InsertSorted(sorted, p) ==
    IF sorted = <<>> THEN <<p>>
    ELSE IF numel[sorted[Len(sorted)]] <= numel[p] THEN Append(sorted, p)
    ELSE Append(InsertSorted(SubSeq(sorted, 1, Len(sorted) - 1), p), sorted[Len(sorted)])

RECURSIVE SortByNumel(_)
SortByNumel(ps) ==
    IF ps = <<>> THEN <<>>
    ELSE InsertSorted(SortByNumel(SubSeq(ps, 1, Len(ps) - 1)), ps[Len(ps)])

\* The index of a device in the ordered table, 0 when it has no entry.
DeviceIndex(table, d) ==
    IF \E i \in DOMAIN table : table[i].device = d
    THEN CHOOSE i \in DOMAIN table : table[i].device = d
    ELSE 0

\* The loop of per_device_params over all params: a device gets its entry
\* (world_size empty lists) when first met, the param joins its rank's list.
RECURSIVE LogPerDevice(_, _, _)
LogPerDevice(table, ps, param_rank) ==
    IF ps = <<>> THEN table
    ELSE LET param == Head(ps)
             d == device[param]
             t == IF DeviceIndex(table, d) = 0
                  THEN Append(table, [device |-> d, lists |-> [rank \in Ranks |-> <<>>]])
                  ELSE table
             i == DeviceIndex(t, d)
         IN  LogPerDevice([t EXCEPT ![i].lists[param_rank[param]] = Append(@, param)],
                          Tail(ps), param_rank)

\* per_device_params: the cached table (an ordered dict: a sequence of
\* entries in insertion order), computed and sorted when empty.
per_device_params(cache, groups, param_rank) ==
    IF cache = <<>>
    THEN LET table == LogPerDevice(<<>>, GroupParams(groups), param_rank)
         IN  [i \in DOMAIN table |->
                 [table[i] EXCEPT !.lists = [rank \in Ranks |-> SortByNumel(@[rank])]]]
    ELSE cache

\* ------------------------------------------------------------ construction
\* The wrapped optimizer's own defaults (SGD: momentum), set in every group
\* the wrapped optimizer is given.
OptimDefaults == [momentum |-> 0]

\* torch's Optimizer.add_param_group: the group with the defaults filled in.
WithDefaults(param_group, defaults) ==
    [k \in DOMAIN param_group \cup DOMAIN defaults |->
        IF k \in DOMAIN param_group THEN param_group[k] ELSE defaults[k]]

\* The loops that copy every key but "params" of local group i into global
\* group i, over zip(global groups, local groups).
LocalToGlobal(global_groups, local_groups) ==
    [i \in DOMAIN global_groups |->
        IF i \in DOMAIN local_groups
        THEN [k \in DOMAIN global_groups[i] \cup HyperKeys(local_groups[i]) |->
                 IF k \in HyperKeys(local_groups[i]) THEN local_groups[i][k]
                 ELSE global_groups[i][k]]
        ELSE global_groups[i]]

\* One zeroed scratch buffer per rank for a device; <<0, 0>> is an element
\* no parameter wrote.
ZeroBuffers == [rank \in Ranks |-> [i \in 1..broadcast_buffer_size |-> <<0, 0>>]]

\* The groups the caller may pass: the parameters 1..n in one or two groups.
GroupLists ==
    {<<[params |-> [i \in 1..n |-> i], lr |-> 1]>> : n \in 1..MaxParams}
    \cup
    {<<[params |-> [i \in 1..c |-> i], lr |-> 1],
       [params |-> [i \in 1..(n - c) |-> c + i], lr |-> 1]>> :
        n \in 1..MaxParams, c \in 1..MaxParams} 

\* A tensor of n elements, each marked with its parameter and the number of
\* updates it went through.
Tensor(p, version) == [i \in 1..numel[p] |-> <<p, version>>]

\* The state before any rank built its optimizer, for the groups in gs.
InitWith(gs) ==
    /\ world_size \in 1..MaxWorld
    /\ numel \in [Params -> Numels]
    \* the names of the devices are interchangeable: parameter 1 is on "cpu"
    /\ device \in {d \in [Params -> Devices] : d[1] = "cpu"}
    /\ broadcast_buffer_size \in BufferSizes
    /\ params \in {gl \in GroupLists : \A i \in DOMAIN gl : gl[i]["params"] # <<>>}
    /\ group \in gs
    /\ pc = [rank \in Ranks |-> "new"]
    /\ param_groups = [rank \in Ranks |-> <<>>]
    /\ _partition_parameters = [rank \in Ranks |-> <<>>]
    /\ _per_device_params = [rank \in Ranks |-> <<>>]
    /\ _param_rank = [rank \in Ranks |-> <<>>]
    /\ optim = [rank \in Ranks |-> [param_groups |-> <<>>, state |-> <<>>]]
    /\ _all_states = [rank \in Ranks |-> <<>>]
    /\ _device = [rank \in Ranks |-> "none"]
    /\ _broadcast_buffers = [rank \in Ranks |-> <<>>]
    /\ data = [rank \in Ranks |-> [p \in Params |-> Tensor(p, 0)]]
    /\ grad = [rank \in Ranks |-> [p \in Params |-> FALSE]]
    /\ steps = [rank \in Ranks |-> 0]
    /\ issued = [rank \in Ranks |-> <<>>]
    /\ bucket_requests = [rank \in Ranks |-> <<>>]
    /\ direct_requests = [rank \in Ranks |-> <<>>]
    /\ dev = [rank \in Ranks |-> 0]
    /\ step_start = [rank \in Ranks |-> 0]
    /\ objects = [rank \in Ranks |-> <<>>]
    /\ recipient_rank = [rank \in Ranks |-> 0]
    /\ all_states = [rank \in Ranks |-> <<>>]
    /\ turn = [rank \in Ranks |-> 0]
    /\ consolidations = [rank \in Ranks |-> 0]
    /\ checkpoints = <<>>
    /\ loads = [rank \in Ranks |-> <<>>]

\* No process of a pipeline: the optimizer is used without PipeRPCWrapper.
NoPipe ==
    /\ pipeline_group = <<>>
    /\ wrapper = <<>>
    /\ PipeModel = <<>>
    /\ rpc_calls = <<>>

\* The partition does not read the group.
Init == InitWith({"WORLD"}) /\ NoPipe

\* OSS.__init__ on rank self.  It raises IndexError when the rank's shard of
\* the first group is empty (the read of the first parameter's device), and
\* when rank 0 owns nothing on some device (the read of the buffers' dtype);
\* what was set before the error stays set.
Construct(self) ==
    /\ pc[self] = "new"
    /\ \E partition \in {partition_parameters(self, <<>>, params)} :
       \E local \in {[i \in DOMAIN partition[self] |->
                         WithDefaults(partition[self][i], OptimDefaults)]} :
       \E global \in {LocalToGlobal(params, local)} :
       \E has_device \in {partition[self][1]["params"] # <<>>} :
       \E param_rank \in {IF has_device THEN param_to_rank(<<>>, partition) ELSE <<>>} :
       \E table \in {IF has_device THEN per_device_params(<<>>, global, param_rank)
                     ELSE <<>>} :
       \E has_dtype \in {\A i \in DOMAIN table : table[i].lists[0] # <<>>} :
           /\ param_groups' = [param_groups EXCEPT ![self] = global]
           /\ _partition_parameters' = [_partition_parameters EXCEPT ![self] = partition]
           /\ optim' = [optim EXCEPT ![self] = [param_groups |-> local, state |-> <<>>]]
           /\ _device' = [_device EXCEPT ![self] =
                             IF has_device THEN device[partition[self][1]["params"][1]]
                             ELSE "none"]
           /\ _param_rank' = [_param_rank EXCEPT ![self] = param_rank]
           /\ _per_device_params' = [_per_device_params EXCEPT ![self] = table]
           /\ _broadcast_buffers' =
                  [_broadcast_buffers EXCEPT ![self] =
                      IF has_device /\ has_dtype
                      THEN [d \in {table[i].device : i \in DOMAIN table} |-> ZeroBuffers]
                      ELSE <<>>]
           /\ pc' = [pc EXCEPT ![self] =
                        IF has_device /\ has_dtype THEN "idle" ELSE "IndexError"]
    /\ UNCHANGED <<config, pipevars, loadvars, consvars, stepvars>>

\* The parameters no group of the list holds yet.
Unused(groups) == Params \ Range(GroupParams(groups))

\* An add_param_group that keeps the cached partition: C22 tells it from
\* add_param_group.
add_param_group_keep_partition(self, param_group) ==
    \E global \in {Append(param_groups[self], param_group)} :
    \E partition \in {partition_parameters(self, _partition_parameters[self], global)} :
    \E mine \in {partition[self]} :
        /\ param_groups' = [param_groups EXCEPT ![self] = global]
        /\ _partition_parameters' = [_partition_parameters EXCEPT ![self] = partition]
        /\ _per_device_params' = [_per_device_params EXCEPT ![self] = <<>>]
        /\ _param_rank' = [_param_rank EXCEPT ![self] = <<>>]
        /\ optim' = [optim EXCEPT ![self].param_groups =
                        IF Len(mine) = Len(@) + 1
                        THEN Append(@, WithDefaults(mine[Len(mine)], OptimDefaults))
                        ELSE @]

\* An add_param_group that keeps the cached table of per_device_params: C23
\* tells it from add_param_group.
add_param_group_keep_table(self, param_group) ==
    \E global \in {Append(param_groups[self], param_group)} :
    \E partition \in {partition_parameters(self, <<>>, global)} :
    \E mine \in {partition[self]} :
        /\ param_groups' = [param_groups EXCEPT ![self] = global]
        /\ _partition_parameters' = [_partition_parameters EXCEPT ![self] = partition]
        /\ _per_device_params' = _per_device_params
        /\ _param_rank' = [_param_rank EXCEPT ![self] = <<>>]
        /\ optim' = [optim EXCEPT ![self].param_groups =
                        IF Len(mine) = Len(@) + 1
                        THEN Append(@, WithDefaults(mine[Len(mine)], OptimDefaults))
                        ELSE @]

\* OSS.add_param_group on rank self with a group of parameters that are in
\* no group yet: the global list grows, the three caches are cleared, the
\* partition is computed again, and the wrapped optimizer gets the rank's
\* last group when it has exactly one group less.
add_param_group(self, param_group) ==
    \E global \in {Append(param_groups[self], param_group)} :
    \E partition \in {partition_parameters(self, <<>>, global)} :
    \E mine \in {partition[self]} :
        /\ param_groups' = [param_groups EXCEPT ![self] = global]
        /\ _partition_parameters' = [_partition_parameters EXCEPT ![self] = partition]
        /\ _per_device_params' = [_per_device_params EXCEPT ![self] = <<>>]
        /\ _param_rank' = [_param_rank EXCEPT ![self] = <<>>]
        /\ optim' = [optim EXCEPT ![self].param_groups =
                        IF Len(mine) = Len(@) + 1
                        THEN Append(@, WithDefaults(mine[Len(mine)], OptimDefaults))
                        ELSE @]

AddParamGroup(self) ==
    /\ pc[self] = "idle"
    /\ \E n \in 1..MaxParams :
          LET first == MaxParams - Cardinality(Unused(param_groups[self])) + 1 IN
          /\ first + n - 1 <= MaxParams
          /\ add_param_group(self, [params |-> [i \in 1..n |-> first + i - 1], lr |-> 1])
    /\ UNCHANGED <<config, pipevars, loadvars, pc, consvars, _device, _broadcast_buffers, stepvars>>

\* Reading the param_to_rank and per_device_params properties fills their
\* caches.
ReadPerDeviceParams(self) ==
    /\ pc[self] = "idle"
    /\ _per_device_params[self] = <<>>
    /\ \E partition \in {partition_parameters(self, _partition_parameters[self],
                                              param_groups[self])} :
       \E param_rank \in {param_to_rank(_param_rank[self], partition)} :
           /\ _param_rank' = [_param_rank EXCEPT ![self] = param_rank]
           /\ _per_device_params' =
                  [_per_device_params EXCEPT
                      ![self] = per_device_params(@, param_groups[self], param_rank)]
    /\ UNCHANGED <<config, pipevars, loadvars, pc, param_groups, _partition_parameters, optim,
                   consvars, _device, _broadcast_buffers, stepvars>>

\* Reading the param_to_rank property alone fills its cache.
ReadParamToRank(self) ==
    /\ pc[self] = "idle"
    /\ _param_rank[self] = <<>>
    /\ \E partition \in {partition_parameters(self, _partition_parameters[self],
                                              param_groups[self])} :
          _param_rank' = [_param_rank EXCEPT ![self] = param_to_rank(@, partition)]
    /\ UNCHANGED <<config, pipevars, loadvars, pc, param_groups, _partition_parameters,
                   _per_device_params, optim, consvars, _device, _broadcast_buffers,
                   stepvars>>

\* Groups are added and the views read between the additions.
NextCache ==
    \/ \E self \in Ranks : Construct(self)
    \/ \E self \in Ranks : AddParamGroup(self)
    \/ \E self \in Ranks : ReadParamToRank(self)
    \/ \E self \in Ranks : ReadPerDeviceParams(self)

SpecCache == Init /\ [][NextCache]_vars

NextPart ==
    \/ \E self \in Ranks : Construct(self)
    \/ \E self \in Ranks : AddParamGroup(self)

SpecPart == Init /\ [][NextPart]_vars

\* ------------------------------------------------------------------- step
MaxSteps == 1

\* get_global_rank: the rank itself in the default group; the members of
\* the custom group are the global ranks 1..world_size.
get_global_rank(g, rank) == IF g = "WORLD" THEN rank ELSE rank + 1

\* A sync that leaves the local groups as they are: C18 tells it from
\* GlobalToLocal.
GlobalToLocal_none(global_groups, local_groups) == local_groups

\* _sync_param_groups(): every key of local group i but "params" that
\* global group i has too takes the global value.
GlobalToLocal(global_groups, local_groups) ==
    [i \in DOMAIN local_groups |->
        IF i \in DOMAIN global_groups
        THEN [k \in DOMAIN local_groups[i] |->
                 IF k # "params" /\ k \in DOMAIN global_groups[i]
                 THEN global_groups[i][k] ELSE local_groups[i][k]]
        ELSE local_groups[i]]

\* A _free_other_grads() that frees the grads of every rank's params, the
\* rank's own too: C20 tells it from free_other_grads.
free_other_grads_all(self, partition, grads) ==
    [p \in DOMAIN grads |->
        IF \E rank \in DOMAIN partition : p \in Range(GroupParams(partition[rank]))
        THEN FALSE ELSE grads[p]]

\* _free_other_grads(): the grads of the params of every other rank go.
free_other_grads(self, partition, grads) ==
    [p \in DOMAIN grads |->
        IF \E rank \in DOMAIN partition :
               rank # self /\ p \in Range(GroupParams(partition[rank]))
        THEN FALSE ELSE grads[p]]

\* The params the wrapped optimizer updates: those of its groups with a grad.
Updated(local_groups, grads) == {p \in Range(GroupParams(local_groups)) : grads[p]}

\* self.optim.step(): the data of every updated param moves on one version,
\* and the param's optimizer state counts the update.
OptimStepData(local_groups, grads, dat) ==
    [p \in DOMAIN dat |->
        IF p \in Updated(local_groups, grads)
        THEN [i \in DOMAIN dat[p] |-> <<dat[p][i][1], dat[p][i][2] + 1>>]
        ELSE dat[p]]

OptimStepState(local_groups, grads, state) ==
    [p \in DOMAIN state \cup Updated(local_groups, grads) |->
        IF p \in Updated(local_groups, grads)
        THEN (IF p \in DOMAIN state THEN state[p] ELSE 0) + 1
        ELSE state[p]]

\* dist.broadcast(tensor, src, group, async_op=True): the call joins the
\* calls the rank issued; its handle is its place among them.  what names
\* the tensor the call was given.
Broadcast(calls, tensor, src, what) ==
    Append(calls, [src |-> src, tensor |-> tensor, what |-> what])

\* The broadcast of a rank's bucket, and its entry in bucket_requests.
SendBucket(d, src_rank, st) ==
    [st EXCEPT
        !.calls = Broadcast(@, st.buffer, get_global_rank(group, src_rank),
                            <<"bucket", d, src_rank>>),
        !.bucket_requests = Append(@, [handle |-> Len(st.calls) + 1,
                                       src_rank |-> src_rank,
                                       bucket_params |-> st.bucket_params])]

\* A loop body that packs while the bucket is open, whatever room is left:
\* C6 tells it from PackParam.
PackParam_any_size(d, src_rank, dat, st, p) ==
    IF ~st.bucket_sent
    THEN LET end == st.offset + numel[p] IN
         [st EXCEPT
             !.buffer = [i \in DOMAIN @ |->
                            IF st.offset < i /\ i <= end
                            THEN dat[p][i - st.offset] ELSE @[i]],
             !.bucket_params = Append(@, <<p, st.offset, end>>),
             !.offset = end]
    ELSE [st EXCEPT
             !.calls = Broadcast(@, dat[p], get_global_rank(group, src_rank),
                                 <<"direct", p>>),
             !.direct_requests = Append(@, Len(st.calls) + 1)]

\* A loop body that also packs the param that fills the bucket to the
\* brim: C27 tells it from PackParam.
PackParam_up_to_capacity(d, src_rank, dat, st, p) ==
    IF ~st.bucket_sent /\ st.offset + numel[p] <= st.buffer_size
    THEN LET end == st.offset + numel[p] IN
         [st EXCEPT
             !.buffer = [i \in DOMAIN @ |->
                            IF st.offset < i /\ i <= end
                            THEN dat[p][i - st.offset] ELSE @[i]],
             !.bucket_params = Append(@, <<p, st.offset, end>>),
             !.offset = end]
    ELSE LET sent == IF st.offset > 0 /\ ~st.bucket_sent
                     THEN [SendBucket(d, src_rank, st) EXCEPT !.bucket_sent = TRUE]
                     ELSE st
         IN  [sent EXCEPT
                 !.calls = Broadcast(@, dat[p], get_global_rank(group, src_rank),
                                     <<"direct", p>>),
                 !.direct_requests = Append(@, Len(sent.calls) + 1)]

\* The body of the loop over the params of one source rank: the param is
\* copied into the buffer while the bucket is open and has room; otherwise
\* the bucket is sent, when it holds something and was not sent, and the
\* param is broadcast on its own.
PackParam(d, src_rank, dat, st, p) ==
    IF ~st.bucket_sent /\ st.offset + numel[p] < st.buffer_size
    THEN LET end == st.offset + numel[p] IN
         [st EXCEPT
             !.buffer = [i \in DOMAIN @ |->
                            IF st.offset < i /\ i <= end
                            THEN dat[p][i - st.offset] ELSE @[i]],
             !.bucket_params = Append(@, <<p, st.offset, end>>),
             !.offset = end]
    ELSE LET sent == IF st.offset > 0 /\ ~st.bucket_sent
                     THEN [SendBucket(d, src_rank, st) EXCEPT !.bucket_sent = TRUE]
                     ELSE st
         IN  [sent EXCEPT
                 !.calls = Broadcast(@, dat[p], get_global_rank(group, src_rank),
                                     <<"direct", p>>),
                 !.direct_requests = Append(@, Len(sent.calls) + 1)]

RECURSIVE PackParams(_, _, _, _, _)
PackParams(d, src_rank, dat, st, ps) ==
    IF ps = <<>> THEN st
    ELSE PackParams(d, src_rank, dat, PackParam(d, src_rank, dat, st, Head(ps)), Tail(ps))

\* An iteration that passes over a source rank with no param on the device:
\* C7 tells it from PackRank.
PackRank_skip_empty(d, dat, per_rank_params, acc, src_rank) ==
    IF per_rank_params[src_rank] = <<>> THEN acc
    ELSE LET st == PackParams(d, src_rank, dat,
                              [buffer |-> acc.buffers[src_rank],
                               buffer_size |-> Len(acc.buffers[0]),
                               offset |-> 0,
                               bucket_sent |-> FALSE,
                               bucket_params |-> <<>>,
                               calls |-> acc.calls,
                               bucket_requests |-> acc.bucket_requests,
                               direct_requests |-> acc.direct_requests],
                              per_rank_params[src_rank])
             done == IF ~st.bucket_sent THEN SendBucket(d, src_rank, st) ELSE st
         IN  [buffers |-> [acc.buffers EXCEPT ![src_rank] = done.buffer],
              calls |-> done.calls,
              bucket_requests |-> done.bucket_requests,
              direct_requests |-> done.direct_requests]

\* One iteration of the loop over the source ranks, with the trailing bucket.
PackRank(d, dat, per_rank_params, acc, src_rank) ==
    LET st == PackParams(d, src_rank, dat,
                         [buffer |-> acc.buffers[src_rank],
                          buffer_size |-> Len(acc.buffers[0]),
                          offset |-> 0,
                          bucket_sent |-> FALSE,
                          bucket_params |-> <<>>,
                          calls |-> acc.calls,
                          bucket_requests |-> acc.bucket_requests,
                          direct_requests |-> acc.direct_requests],
                         per_rank_params[src_rank])
        done == IF ~st.bucket_sent THEN SendBucket(d, src_rank, st) ELSE st
    IN  [buffers |-> [acc.buffers EXCEPT ![src_rank] = done.buffer],
         calls |-> done.calls,
         bucket_requests |-> done.bucket_requests,
         direct_requests |-> done.direct_requests]

RECURSIVE PackRanks(_, _, _, _, _)
PackRanks(d, dat, per_rank_params, acc, src_rank) ==
    IF src_rank \notin DOMAIN per_rank_params \/ src_rank \notin DOMAIN acc.buffers
    THEN acc
    ELSE PackRanks(d, dat, per_rank_params,
                   PackRank(d, dat, per_rank_params, acc, src_rank), src_rank + 1)

\* The first half of _broadcast_params for device d: every bucket is filled
\* and every broadcast issued, for all the source ranks in order.
broadcast_params_issue(d, dat, buffers, per_rank_params, calls) ==
    PackRanks(d, dat, per_rank_params,
              [buffers |-> buffers, calls |-> calls,
               bucket_requests |-> <<>>, direct_requests |-> <<>>], 0)

\* A step() that returns without the sync of the local groups into the
\* global ones: C19 tells it from Proceed.
Proceed_no_sync(self, k, st) ==
    IF k > Len(st.table)
    THEN [st EXCEPT !.pc = "idle", !.dev = 0, !.steps = @ + 1]
    ELSE IF st.table[k].device \notin DOMAIN st.buffers
    THEN [st EXCEPT !.pc = "KeyError", !.dev = k]
    ELSE LET d == st.table[k].device
             r == broadcast_params_issue(d, st.data, st.buffers[d],
                                         st.table[k].lists, st.calls)
         IN  [st EXCEPT !.pc = "waiting", !.dev = k,
                        !.buffers[d] = r.buffers,
                        !.calls = r.calls,
                        !.bucket_requests = r.bucket_requests,
                        !.direct_requests = r.direct_requests]

\* A step() that returns at the first device on which the calling rank holds
\* no param: C8 tells it from Proceed.
Proceed_own_devices(self, k, st) ==
    IF k > Len(st.table) \/ st.table[k].lists[self] = <<>>
    THEN [st EXCEPT !.pc = "idle", !.dev = 0,
                    !.param_groups = LocalToGlobal(@, st.local_groups),
                    !.steps = @ + 1]
    ELSE IF st.table[k].device \notin DOMAIN st.buffers
    THEN [st EXCEPT !.pc = "KeyError", !.dev = k]
    ELSE LET d == st.table[k].device
             r == broadcast_params_issue(d, st.data, st.buffers[d],
                                         st.table[k].lists, st.calls)
         IN  [st EXCEPT !.pc = "waiting", !.dev = k,
                        !.buffers[d] = r.buffers,
                        !.calls = r.calls,
                        !.bucket_requests = r.bucket_requests,
                        !.direct_requests = r.direct_requests]

\* step() from entry k of per_device_params on: the broadcasts of the device
\* are issued and the rank goes on to wait for them; a device without
\* buffers is a KeyError; past the last device the local groups are synced
\* into the global ones and step() returns.
Proceed(self, k, st) ==
    IF k > Len(st.table)
    THEN [st EXCEPT !.pc = "idle", !.dev = 0,
                    !.param_groups = LocalToGlobal(@, st.local_groups),
                    !.steps = @ + 1]
    ELSE IF st.table[k].device \notin DOMAIN st.buffers
    THEN [st EXCEPT !.pc = "KeyError", !.dev = k]
    ELSE LET d == st.table[k].device
             r == broadcast_params_issue(d, st.data, st.buffers[d],
                                         st.table[k].lists, st.calls)
         IN  [st EXCEPT !.pc = "waiting", !.dev = k,
                        !.buffers[d] = r.buffers,
                        !.calls = r.calls,
                        !.bucket_requests = r.bucket_requests,
                        !.direct_requests = r.direct_requests]

\* What step() reads and writes on rank self.
StepState(self) ==
    [pc |-> pc[self], dev |-> dev[self], steps |-> steps[self],
     param_groups |-> param_groups[self],
     local_groups |-> optim[self].param_groups,
     table |-> _per_device_params[self],
     buffers |-> _broadcast_buffers[self],
     data |-> data[self],
     calls |-> issued[self],
     bucket_requests |-> bucket_requests[self],
     direct_requests |-> direct_requests[self]]

SetStepState(self, st) ==
    /\ pc' = [pc EXCEPT ![self] = st.pc]
    /\ dev' = [dev EXCEPT ![self] = st.dev]
    /\ steps' = [steps EXCEPT ![self] = st.steps]
    /\ param_groups' = [param_groups EXCEPT ![self] = st.param_groups]
    /\ _broadcast_buffers' = [_broadcast_buffers EXCEPT ![self] = st.buffers]
    /\ data' = [data EXCEPT ![self] = st.data]
    /\ issued' = [issued EXCEPT ![self] = st.calls]
    /\ bucket_requests' = [bucket_requests EXCEPT ![self] = st.bucket_requests]
    /\ direct_requests' = [direct_requests EXCEPT ![self] = st.direct_requests]

\* loss.backward() on rank self: every param of the model gets its grad.
Backward(self) ==
    /\ pc[self] = "idle"
    /\ \E p \in Range(GroupParams(param_groups[self])) : ~grad[self][p]
    /\ grad' = [grad EXCEPT ![self] =
                   [p \in Params |-> p \in Range(GroupParams(param_groups[self]))]]
    /\ UNCHANGED <<config, pipevars, loadvars, pc, param_groups, _partition_parameters,
                   _per_device_params, _param_rank, optim, consvars, _device,
                   _broadcast_buffers, data, steps, issued, bucket_requests,
                   direct_requests, dev, step_start>>

\* step() on rank self up to its first wait: the global groups are synced
\* into the local ones, the grads of the other ranks' params are freed, the
\* wrapped optimizer steps, and the broadcasts of the first device are issued.
Step(self) ==
    /\ pc[self] = "idle"
    /\ steps[self] < MaxSteps
    /\ \E local \in {GlobalToLocal(param_groups[self], optim[self].param_groups)} :
       \E partition \in {partition_parameters(self, _partition_parameters[self],
                                              param_groups[self])} :
       \E grads \in {free_other_grads(self, partition, grad[self])} :
       \E param_rank \in {param_to_rank(_param_rank[self], partition)} :
       \E table \in {per_device_params(_per_device_params[self], param_groups[self],
                                       param_rank)} :
       \E st \in {[StepState(self) EXCEPT
                      !.local_groups = local,
                      !.table = table,
                      !.data = OptimStepData(local, grads, data[self])]} :
           /\ _partition_parameters' = [_partition_parameters EXCEPT ![self] = partition]
           /\ _param_rank' = [_param_rank EXCEPT ![self] = param_rank]
           /\ _per_device_params' = [_per_device_params EXCEPT ![self] = table]
           /\ grad' = [grad EXCEPT ![self] = grads]
           /\ optim' = [optim EXCEPT ![self] =
                           [param_groups |-> local,
                            state |-> OptimStepState(local, grads, @.state)]]
           /\ SetStepState(self, Proceed(self, 1, st))
    /\ step_start' = [step_start EXCEPT ![self] = Len(issued[self])]
    /\ UNCHANGED <<config, pipevars, loadvars, consvars, _device>>

\* The rank of the group with the global rank src.
LocalRank(src) == CHOOSE rank \in Ranks : get_global_rank(group, rank) = src

\* A broadcast is complete when every rank of the group issued it: the
\* calls are matched by their order, and agree on the source and the size.
Completed(self, handle) ==
    \A rank \in Ranks :
        /\ Len(issued[rank]) >= handle
        /\ issued[rank][handle].src = issued[self][handle].src
        /\ Len(issued[rank][handle].tensor) = Len(issued[self][handle].tensor)

\* What the rank's tensor holds once the broadcast is complete: the source's
\* tensor, on the source itself what it held.
Received(self, handle) ==
    issued[LocalRank(issued[self][handle].src)][handle].tensor

\* A copy-out that reads every param from the start of the buffer: C5 tells
\* it from Unpack.
RECURSIVE Unpack_from_zero(_, _, _)
Unpack_from_zero(dat, buffer, bucket_params) ==
    IF bucket_params = <<>> THEN dat
    ELSE LET p == Head(bucket_params)[1]
             offset == Head(bucket_params)[2]
             end == Head(bucket_params)[3]
         IN  Unpack_from_zero([dat EXCEPT ![p] = SubSeq(buffer, 1, end - offset)],
                              buffer, Tail(bucket_params))

\* The loop that copies the params of a bucket out of the buffer.
RECURSIVE Unpack(_, _, _)
Unpack(dat, buffer, bucket_params) ==
    IF bucket_params = <<>> THEN dat
    ELSE LET p == Head(bucket_params)[1]
             offset == Head(bucket_params)[2]
             end == Head(bucket_params)[3]
         IN  Unpack([dat EXCEPT ![p] = SubSeq(buffer, offset + 1, end)],
                    buffer, Tail(bucket_params))

\* work_handle.wait() on the next bucket: the buffer holds what the source
\* sent, and the params of another rank's bucket are copied out of it.
\* After the last request of the device step() goes on.
WaitBucket(self) ==
    /\ pc[self] = "waiting"
    /\ bucket_requests[self] # <<>>
    /\ \E req \in {Head(bucket_requests[self])} :
       \E call \in {issued[self][req.handle]} :
       \E d \in {call.what[2]} :
           /\ Completed(self, req.handle)
           /\ \E buffers \in {[_broadcast_buffers[self] EXCEPT
                                  ![d][call.what[3]] = Received(self, req.handle)]} :
              \E st \in {[StepState(self) EXCEPT
                             !.buffers = buffers,
                             !.data = IF req.src_rank # self
                                      THEN Unpack(@, buffers[d][req.src_rank],
                                                  req.bucket_params)
                                      ELSE @,
                             !.bucket_requests = Tail(@)]} :
                  SetStepState(self,
                               IF st.bucket_requests = <<>> /\ st.direct_requests = <<>>
                               THEN Proceed(self, st.dev + 1, st) ELSE st)
    /\ UNCHANGED <<config, pipevars, loadvars, _partition_parameters, _per_device_params, _param_rank,
                   optim, consvars, _device, grad, step_start>>

\* A wait on the next direct request that does not let the buckets go
\* first: C29 tells it from WaitDirect.
WaitDirect_any_time(self) ==
    /\ pc[self] = "waiting"
    /\ direct_requests[self] # <<>>
    /\ \E handle \in {Head(direct_requests[self])} :
       \E call \in {issued[self][handle]} :
           /\ Completed(self, handle)
           /\ \E st \in {[StepState(self) EXCEPT
                             !.data[call.what[2]] = Received(self, handle),
                             !.direct_requests = Tail(@)]} :
                  SetStepState(self,
                               IF st.direct_requests = <<>> /\ st.bucket_requests = <<>>
                               THEN Proceed(self, st.dev + 1, st) ELSE st)
    /\ UNCHANGED <<config, pipevars, loadvars, _partition_parameters, _per_device_params, _param_rank,
                   optim, consvars, _device, grad, step_start>>

\* x.wait() on the next direct request, once the buckets are done: the
\* param holds what the source sent.
WaitDirect(self) ==
    /\ pc[self] = "waiting"
    /\ bucket_requests[self] = <<>>
    /\ direct_requests[self] # <<>>
    /\ \E handle \in {Head(direct_requests[self])} :
       \E call \in {issued[self][handle]} :
           /\ Completed(self, handle)
           /\ \E st \in {[StepState(self) EXCEPT
                             !.data[call.what[2]] = Received(self, handle),
                             !.direct_requests = Tail(@)]} :
                  SetStepState(self,
                               IF st.direct_requests = <<>>
                               THEN Proceed(self, st.dev + 1, st) ELSE st)
    /\ UNCHANGED <<config, pipevars, loadvars, _partition_parameters, _per_device_params, _param_rank,
                   optim, consvars, _device, grad, step_start>>

\* When rank may take each of its steps.  Every step past its guard is a
\* total assignment, so the guard is the step's enabling condition.
ConstructEnabled(rank) == rank \in Ranks /\ pc[rank] = "new"

StepEnabled(rank) == rank \in Ranks /\ pc[rank] = "idle" /\ steps[rank] < MaxSteps

WaitBucketEnabled(rank) ==
    /\ rank \in Ranks
    /\ pc[rank] = "waiting"
    /\ bucket_requests[rank] # <<>>
    /\ Completed(rank, Head(bucket_requests[rank]).handle)

WaitDirectEnabled(rank) ==
    /\ rank \in Ranks
    /\ pc[rank] = "waiting"
    /\ bucket_requests[rank] = <<>>
    /\ direct_requests[rank] # <<>>
    /\ Completed(rank, Head(direct_requests[rank]))

\* The processes of a group, each about to build its optimizer.
InitStep ==
    /\ InitWith(Groups)
    /\ NoPipe
    \* the parameters no group holds are not part of the program
    /\ \A p \in Unused(params) : numel[p] = 1 /\ device[p] = "cpu"

NextStep ==
    \/ \E self \in Ranks : Construct(self)
    \/ \E self \in Ranks : Backward(self)
    \/ \E self \in Ranks : Step(self)
    \/ \E self \in Ranks : WaitBucket(self)
    \/ \E self \in Ranks : WaitDirect(self)

SpecStep == InitStep /\ [][NextStep]_vars

\* ----------------------------------------------------------- consolidation
MaxConsolidations == 1

\* local_state_dict(), the wrapped optimizer's state_dict(): the parameters
\* are named by their place in the traversal of the optimizer's groups, from
\* 0, in the groups and in the keys of the state; the state of a parameter
\* lives on the parameter's device.
local_state_dict(o) ==
    LET groups == o.param_groups
        flat == GroupParams(groups)
        before(i) == Len(GroupParams(SubSeq(groups, 1, i - 1)))
    IN  [state |->
             [k \in {i - 1 : i \in {j \in DOMAIN flat : flat[j] \in DOMAIN o.state}} |->
                 [step |-> o.state[flat[k + 1]], device |-> device[flat[k + 1]]]],
         param_groups |->
             [i \in DOMAIN groups |->
                 [groups[i] EXCEPT !.params = [j \in DOMAIN @ |-> before(i) + j - 1]]]]

\* The one-byte tensor on the rank's device that stands for no payload.
empty_buffer(self) == [tensor |-> <<0>>, device |-> _device[self]]

\* recursive_copy_to_device: the same value, every tensor of it on device d.
recursive_copy_to_device(value, d) ==
    IF "state" \in DOMAIN value
    THEN [value EXCEPT !.state = [k \in DOMAIN @ |-> [@[k] EXCEPT !.device = d]]]
    ELSE [value EXCEPT !.device = d]

\* broadcast_object(obj, src_rank, group): the call joins the calls the rank
\* issued and returns once every rank of the group has issued it; it returns
\* the object the source gave.  what names the turn the call was made in.
broadcast_object(calls, obj, src_rank, what) ==
    Append(calls, [src |-> src_rank, obj |-> obj, what |-> what])

ObjectCompleted(self, handle) ==
    \A rank \in Ranks :
        /\ Len(objects[rank]) >= handle
        /\ objects[rank][handle].src = objects[self][handle].src

ObjectReceived(self, handle) ==
    objects[LocalRank(objects[self][handle].src)][handle].obj

\* A non-recipient that sends its state in every turn: C9 tells it from
\* _broadcast_state_dict.
broadcast_state_dict_always(self, st) ==
    [st EXCEPT
        !.calls = broadcast_object(@, local_state_dict(st.optim),
                                   get_global_rank(group, st.turn),
                                   [turn |-> st.turn, recipient |-> st.recipient,
                                    steps |-> steps[self]])]

\* The body of _broadcast_state_dict's loop up to its broadcast_object call.
broadcast_state_dict(self, st) ==
    [st EXCEPT
        !.calls = broadcast_object(@,
                                   IF st.turn = self THEN local_state_dict(st.optim)
                                   ELSE empty_buffer(self),
                                   get_global_rank(group, st.turn),
                                   [turn |-> st.turn, recipient |-> st.recipient,
                                    steps |-> steps[self]])]

\* The body of _collect_sharded_states' loop up to its broadcast_object
\* call: in its own turn the rank saves its state, moved to cpu, first.
collect_sharded_states(self, st) ==
    [st EXCEPT
        !.all_states = IF st.turn = self
                       THEN Append(@, recursive_copy_to_device(
                                          local_state_dict(st.optim), "cpu"))
                       ELSE @,
        !.calls = broadcast_object(@, empty_buffer(self),
                                   get_global_rank(group, st.turn),
                                   [turn |-> st.turn, recipient |-> st.recipient,
                                    steps |-> steps[self]])]

\* A consolidate_state_dict() after which every rank keeps a state: C12
\* tells it from consolidate_from.
consolidate_from_everyone(self, st) ==
    IF st.turn >= world_size
    THEN [st EXCEPT !.pc = "idle",
                    !._all_states = IF self = st.recipient THEN st.all_states
                                    ELSE <<local_state_dict(st.optim)>>]
    ELSE [(IF self = st.recipient THEN collect_sharded_states(self, st)
           ELSE broadcast_state_dict(self, st))
          EXCEPT !.pc = "consolidating"]

\* consolidate_state_dict() from turn st.turn on, up to the next call of
\* broadcast_object; after the last turn the recipient keeps what it
\* collected.
consolidate_from(self, st) ==
    IF st.turn >= world_size
    THEN [st EXCEPT !.pc = "idle",
                    !._all_states = IF self = st.recipient THEN st.all_states ELSE @]
    ELSE [(IF self = st.recipient THEN collect_sharded_states(self, st)
           ELSE broadcast_state_dict(self, st))
          EXCEPT !.pc = "consolidating"]

\* What consolidate_state_dict() reads and writes on rank self.
ConsolidateState(self) ==
    [pc |-> pc[self], turn |-> turn[self], recipient |-> recipient_rank[self],
     optim |-> optim[self], all_states |-> all_states[self],
     _all_states |-> _all_states[self], calls |-> objects[self]]

SetConsolidateState(self, st) ==
    /\ pc' = [pc EXCEPT ![self] = st.pc]
    /\ turn' = [turn EXCEPT ![self] = st.turn]
    /\ recipient_rank' = [recipient_rank EXCEPT ![self] = st.recipient]
    /\ optim' = [optim EXCEPT ![self] = st.optim]
    /\ all_states' = [all_states EXCEPT ![self] = st.all_states]
    /\ _all_states' = [_all_states EXCEPT ![self] = st._all_states]
    /\ objects' = [objects EXCEPT ![self] = st.calls]


\* consolidate_state_dict(recipient) on rank self up to its first call of
\* broadcast_object: the global groups are synced into the local ones.
Consolidate(self) ==
    /\ pc[self] = "idle"
    /\ consolidations[self] < MaxConsolidations
    /\ \E recipient \in Ranks :
       \E local \in {GlobalToLocal(param_groups[self], optim[self].param_groups)} :
          SetConsolidateState(self,
              consolidate_from(self,
                  [ConsolidateState(self) EXCEPT
                      !.turn = 0, !.recipient = recipient,
                      !.optim.param_groups = local, !.all_states = <<>>]))
    /\ consolidations' = [consolidations EXCEPT ![self] = @ + 1]
    /\ UNCHANGED <<config, pipevars, loadvars, param_groups, _partition_parameters, _per_device_params,
                   _param_rank, _device, _broadcast_buffers, stepvars>>

\* The return of broadcast_object on rank self: the recipient saves what
\* another rank sent, moved to cpu, and the loop goes on.
ObjectWait(self) ==
    /\ pc[self] = "consolidating"
    /\ \E handle \in {Len(objects[self])} :
          /\ ObjectCompleted(self, handle)
          /\ \E st \in {[ConsolidateState(self) EXCEPT
                            !.all_states =
                                IF self = recipient_rank[self] /\ turn[self] # self
                                THEN Append(@, recursive_copy_to_device(
                                                   ObjectReceived(self, handle), "cpu"))
                                ELSE @,
                            !.turn = @ + 1]} :
                SetConsolidateState(self, consolidate_from(self, st))
    /\ UNCHANGED <<config, pipevars, loadvars, param_groups, _partition_parameters, _per_device_params,
                   _param_rank, _device, _broadcast_buffers, stepvars, consolidations>>

\* A scheduler on rank self sets the lr of the first global group.
SetLr(self) ==
    /\ pc[self] = "idle"
    /\ \E lr \in LrValues :
          /\ lr # param_groups[self][1].lr
          /\ param_groups' = [param_groups EXCEPT ![self][1].lr = lr]
    /\ UNCHANGED <<config, pipevars, loadvars, pc, _partition_parameters, _per_device_params,
                   _param_rank, optim, _device, _broadcast_buffers, stepvars,
                   consvars>>

\* A state_dict() whose partition map starts every shard at 0: C10 tells it
\* from state_dict.
state_dict_from_zero(self) ==
    LET states == _all_states[self] IN
    IF Len(states) = 0
    THEN [k \in {"state", "param_groups", "local_state_dict"} |->
             IF k = "local_state_dict" THEN TRUE
             ELSE local_state_dict(optim[self])[k]]
    ELSE [state |-> [i \in DOMAIN states |-> states[i].state],
          param_groups |-> Flatten([i \in DOMAIN states |-> states[i].param_groups]),
          partition |-> [i \in DOMAIN states |-> <<0, Len(states[i].param_groups)>>],
          local_state_dict |-> FALSE]

\* A partition map that leaves one index out between two shards: C25 tells
\* it from PartitionMap.
RECURSIVE PartitionMap_gap(_, _)
PartitionMap_gap(states, start) ==
    IF states = <<>> THEN <<>>
    ELSE LET end == start + Len(Head(states).param_groups)
         IN  <<<<start, end>>>> \o PartitionMap_gap(Tail(states), end + 1)

\* The partition map: the (start, end) of every shard's groups among the
\* flattened groups.
RECURSIVE PartitionMap(_, _)
PartitionMap(states, start) ==
    IF states = <<>> THEN <<>>
    ELSE LET end == start + Len(Head(states).param_groups)
         IN  <<<<start, end>>>> \o PartitionMap(Tail(states), end)

\* A state_dict() that leaves the local state unmarked: C11 tells it from
\* state_dict.
state_dict_unmarked(self) ==
    LET states == _all_states[self] IN
    IF Len(states) = 0
    THEN [k \in {"state", "param_groups", "local_state_dict"} |->
             IF k = "local_state_dict" THEN FALSE
             ELSE local_state_dict(optim[self])[k]]
    ELSE [state |-> [i \in DOMAIN states |-> states[i].state],
          param_groups |-> Flatten([i \in DOMAIN states |-> states[i].param_groups]),
          partition |-> PartitionMap(states, 0),
          local_state_dict |-> FALSE]

\* state_dict() on rank self: the local state dict, marked, before any
\* consolidation; the global one after.
state_dict(self) ==
    LET states == _all_states[self] IN
    IF Len(states) = 0
    THEN [k \in {"state", "param_groups", "local_state_dict"} |->
             IF k = "local_state_dict" THEN TRUE
             ELSE local_state_dict(optim[self])[k]]
    ELSE [state |-> [i \in DOMAIN states |-> states[i].state],
          param_groups |-> Flatten([i \in DOMAIN states |-> states[i].param_groups]),
          partition |-> PartitionMap(states, 0),
          local_state_dict |-> FALSE]

\* rank_local_state_dict(rank, state_dict): the slice of the groups the
\* partition map gives the rank, and the rank's entry of the states.
rank_local_state_dict(rank, sd) ==
    [state |-> sd.state[rank + 1],
     param_groups |-> SubSeq(sd.param_groups, sd.partition[rank + 1][1] + 1,
                             sd.partition[rank + 1][2])]

\* What state_dict() logs on rank self: two warnings when it returns the
\* local state, nothing when it returns the collected one.
state_dict_warnings(self) ==
    IF Len(_all_states[self]) = 0
    THEN <<"Optimizer state has not been consolidated. Returning the local state",
           "Please call consolidate_state_dict() beforehand if you meant to save the global state">>
    ELSE <<>>

\* The element counts matter to the consolidation through the partition
\* alone: two parameters that are broadcast on their own, the others in
\* buckets.
InitConsolidate ==
    /\ InitStep
    /\ numel = [p \in Params |-> IF p <= 2 THEN 10 ELSE 1]

NextConsolidate ==
    \/ \E self \in Ranks : Construct(self)
    \/ \E self \in Ranks : Backward(self)
    \/ \E self \in Ranks : Step(self)
    \/ \E self \in Ranks : WaitBucket(self)
    \/ \E self \in Ranks : WaitDirect(self)
    \/ \E self \in Ranks : SetLr(self)
    \/ \E self \in Ranks : Consolidate(self)
    \/ \E self \in Ranks : ObjectWait(self)

SpecConsolidate == InitConsolidate /\ [][NextConsolidate]_vars


\* ------------------------------------------------------------- checkpoints
MaxCheckpoints == 1
MaxLoads == 1

\* state_dict() on rank self, its return value kept as a checkpoint.  On a
\* rank whose collected states are not all state dicts the call raises and
\* nothing changes.
Save(self) ==
    /\ pc[self] = "idle"
    /\ Len(checkpoints) < MaxCheckpoints
    /\ \A i \in DOMAIN _all_states[self] : "state" \in DOMAIN _all_states[self][i]
    /\ checkpoints' = Append(checkpoints, [sd |-> state_dict(self), rank |-> self])
    /\ UNCHANGED <<config, pipevars, pc, param_groups, _partition_parameters,
                   _per_device_params, _param_rank, optim, _device,
                   _broadcast_buffers, stepvars, consvars, loads>>

\* The check of the wrapped optimizer's load_state_dict: the dict has as many
\* groups as the optimizer, each with as many parameters as the optimizer's.
Loadable(o, sd) ==
    /\ Len(sd.param_groups) = Len(o.param_groups)
    /\ \A i \in DOMAIN o.param_groups :
          Len(sd.param_groups[i].params) = Len(o.param_groups[i].params)

\* id_map: the ids of the saved groups zipped with the parameters of the
\* current groups, both in traversal order; a later pair replaces an earlier
\* one of the same id.
id_map(saved_groups, groups) ==
    LET old == GroupParams(saved_groups)
        new == GroupParams(groups)
        both == DOMAIN old \cap DOMAIN new
    IN  [k \in {old[j] : j \in both} |->
            new[CHOOSE j \in both : old[j] = k /\ \A i \in both : old[i] = k => i <= j]]

\* The state of the dict sd under the current parameters: the entry of every
\* id of id_map goes to the id's parameter, copied to the parameter's device.
\* (A dict of state_dict() has no entry outside the ids of its groups.)
LoadedState(sd, groups) ==
    LET map == id_map(sd.param_groups, groups)
        ids == DOMAIN sd.state \cap DOMAIN map
    IN  [p \in {map[k] : k \in ids} |->
            recursive_copy_to_device(
                sd.state[CHOOSE k \in ids : map[k] = p], device[p]).step]

\* self.optim.load_state_dict(sd), once the check passed: the groups of the
\* dict with the parameters of the current groups, and the state of the dict.
optim_load_state_dict(o, sd) ==
    [param_groups |->
         [i \in DOMAIN o.param_groups |->
             [k \in DOMAIN sd.param_groups[i] |->
                 IF k = "params" THEN o.param_groups[i].params
                 ELSE sd.param_groups[i][k]]],
     state |-> LoadedState(sd, o.param_groups)]

\* A load_local_state_dict() that leaves the global groups alone: C17 tells
\* it from load_local_state_dict.
load_local_state_dict_keep_global(st, sd) ==
    IF ~Loadable(st.optim, sd)
    THEN [st EXCEPT !.pc = "ValueError"]
    ELSE [st EXCEPT !.optim = optim_load_state_dict(st.optim, sd)]

\* load_local_state_dict(sd) on the object st: the wrapped optimizer raises
\* ValueError before it changes anything, or loads the dict; then every key
\* but "params" of local group i goes into global group i.
load_local_state_dict(st, sd) ==
    IF ~Loadable(st.optim, sd)
    THEN [st EXCEPT !.pc = "ValueError"]
    ELSE LET o == optim_load_state_dict(st.optim, sd)
         IN  [st EXCEPT !.optim = o,
                        !.param_groups = LocalToGlobal(@, o.param_groups)]

\* A load_state_dict() that takes the first shard of a global dict on every
\* rank: C15 tells it from load_state_dict.
load_state_dict_first_shard(self, st, sd) ==
    IF sd.local_state_dict
    THEN load_local_state_dict(st, sd)
    ELSE load_local_state_dict(st, rank_local_state_dict(0, sd))

\* load_state_dict(sd) on rank self: a local dict is loaded as it is, a
\* global one through the shard of the rank.
load_state_dict(self, st, sd) ==
    IF sd.local_state_dict
    THEN load_local_state_dict(st, sd)
    ELSE load_local_state_dict(st, rank_local_state_dict(self, sd))

\* load_state_dict() on rank self, with a checkpoint some rank kept.
Load(self) ==
    /\ pc[self] = "idle"
    /\ Len(loads[self]) < MaxLoads
    /\ \E c \in DOMAIN checkpoints :
       \E st \in {load_state_dict(self,
                      [pc |-> pc[self], optim |-> optim[self],
                       param_groups |-> param_groups[self]],
                      checkpoints[c].sd)} :
          /\ pc' = [pc EXCEPT ![self] = st.pc]
          /\ optim' = [optim EXCEPT ![self] = st.optim]
          /\ param_groups' = [param_groups EXCEPT ![self] = st.param_groups]
          /\ loads' = [loads EXCEPT ![self] = Append(@, c)]
    /\ UNCHANGED <<config, pipevars, _partition_parameters, _per_device_params, _param_rank,
                   _device, _broadcast_buffers, stepvars, consvars, checkpoints>>

\* Loading reads neither the group nor the devices of the buffers: the
\* default group, and every parameter on one device.
InitLoad ==
    /\ InitConsolidate
    /\ group = "WORLD"
    /\ \A p \in Params : p >= 2 => device[p] = "cpu"

NextLoad ==
    \/ \E self \in Ranks : Construct(self)
    \/ \E self \in Ranks : Backward(self)
    \/ \E self \in Ranks : Step(self)
    \/ \E self \in Ranks : WaitBucket(self)
    \/ \E self \in Ranks : WaitDirect(self)
    \/ \E self \in Ranks : SetLr(self)
    \/ \E self \in Ranks : Consolidate(self)
    \/ \E self \in Ranks : ObjectWait(self)
    \/ \E self \in Ranks : Save(self)
    \/ \E self \in Ranks : Load(self)

SpecLoad == InitLoad /\ [][NextLoad]_vars


\* ------------------------------------------------------ sync of the groups
\* Training with groups added and the lr scheduled between the steps.
InitSync == InitStep

NextSync ==
    \/ \E self \in Ranks : Construct(self)
    \/ \E self \in Ranks : AddParamGroup(self)
    \/ \E self \in Ranks : SetLr(self)
    \/ \E self \in Ranks : Backward(self)
    \/ \E self \in Ranks : Step(self)
    \/ \E self \in Ranks : WaitBucket(self)
    \/ \E self \in Ranks : WaitDirect(self)

SpecSync == InitSync /\ [][NextSync]_vars


\* ------------------------------------------------------ a step that raises
\* A step() whose exception is raised after the sync of the local groups
\* into the global ones: C21 tells it from optim_step_raises.
optim_step_raises_synced(st) ==
    [st EXCEPT !.pc = "raised", !.param_groups = LocalToGlobal(@, st.local_groups)]

\* The exception of self.optim.step() leaves step(): nothing after the call
\* of the wrapped optimizer runs.
optim_step_raises(st) == [st EXCEPT !.pc = "raised"]

\* step() on rank self when the wrapped optimizer raises: the global groups
\* were synced into the local ones and the grads of the other ranks' params
\* freed; the wrapped optimizer had updated some of its params, done, when
\* it raised.
StepRaises(self) ==
    /\ pc[self] = "idle"
    /\ steps[self] < MaxSteps
    /\ \E local \in {GlobalToLocal(param_groups[self], optim[self].param_groups)} :
       \E partition \in {partition_parameters(self, _partition_parameters[self],
                                              param_groups[self])} :
       \E grads \in {free_other_grads(self, partition, grad[self])} :
       \E done \in SUBSET Updated(local, grads) :
       \E partial \in {[p \in Params |-> grads[p] /\ p \in done]} :
       \E st \in {optim_step_raises(
                      [StepState(self) EXCEPT
                          !.local_groups = local,
                          !.data = OptimStepData(local, partial, data[self])])} :
           /\ _partition_parameters' = [_partition_parameters EXCEPT ![self] = partition]
           /\ grad' = [grad EXCEPT ![self] = grads]
           /\ optim' = [optim EXCEPT ![self] =
                           [param_groups |-> local,
                            state |-> OptimStepState(local, partial, @.state)]]
           /\ SetStepState(self, st)
    /\ UNCHANGED <<config, pipevars, loadvars, consvars, _device, _param_rank,
                   _per_device_params, step_start>>

InitRaise == InitStep

NextRaise ==
    \/ \E self \in Ranks : Construct(self)
    \/ \E self \in Ranks : AddParamGroup(self)
    \/ \E self \in Ranks : SetLr(self)
    \/ \E self \in Ranks : Backward(self)
    \/ \E self \in Ranks : Step(self)
    \/ \E self \in Ranks : StepRaises(self)
    \/ \E self \in Ranks : WaitBucket(self)
    \/ \E self \in Ranks : WaitDirect(self)

SpecRaise == InitRaise /\ [][NextRaise]_vars


\* ---------------------------------------------------------- PipeRPCWrapper
MaxPipeWorld == 3

\* The processes of the pipeline: the global ranks of the pipeline group.
Processes == Range(pipeline_group)

\* The process groups over n processes: the global ranks of the members, in
\* the order of their ranks in the group.
ProcessGroups(n) ==
    UNION {{g \in [1..k -> 0..(n - 1)] : \A i, j \in 1..k : g[i] = g[j] => i = j} :
              k \in 1..n}

\* group.rank() on process self: its place in the group from 0, -1 when it is
\* no member.
group_rank(g, self) ==
    IF \E i \in DOMAIN g : g[i] = self
    THEN (CHOOSE i \in DOMAIN g : g[i] = self) - 1
    ELSE -1

\* The rpc.rpc_async calls that register the remote models: one to the
\* worker of every rank 1..size-1 of the group, in order.
register_calls(self, g) ==
    [rank \in 1..(Len(g) - 1) |->
        [to |-> g[rank + 1], fn |-> "register_remote_model", caller |-> self,
         done |-> FALSE]]

\* A constructor without the assertion on the rank: C24 tells it from
\* wrapper_init.
wrapper_init_any_rank(self, kw, calls) ==
    LET g == IF kw = <<>> THEN pipeline_group ELSE kw IN
    IF g # pipeline_group
    THEN [wrapper |-> [pc |-> "AssertionError", group |-> g, model |-> "none",
                       futures |-> <<>>],
          calls |-> calls]
    ELSE [wrapper |-> [pc |-> IF Len(g) = 1 THEN "constructed" ELSE "waiting",
                       group |-> g,
                       model |-> IF Len(g) = 1 THEN "Pipe.cuda" ELSE "Pipe",
                       futures |-> [i \in 1..(Len(g) - 1) |-> Len(calls) + i]],
          calls |-> calls \o register_calls(self, g)]

\* PipeRPCWrapper.__init__ on process self with the group argument kw (<<>>
\* for none), up to the first wait for a future: the group is the argument
\* or else the pipeline group; the process must have rank 0 in it and it
\* must be the pipeline group, or the assertion fails; then the local Pipe is
\* built and the registrations are sent to the other ranks of the group.
wrapper_init(self, kw, calls) ==
    LET g == IF kw = <<>> THEN pipeline_group ELSE kw IN
    IF group_rank(g, self) # 0 \/ g # pipeline_group
    THEN [wrapper |-> [pc |-> "AssertionError", group |-> g, model |-> "none",
                       futures |-> <<>>],
          calls |-> calls]
    ELSE [wrapper |-> [pc |-> IF Len(g) = 1 THEN "constructed" ELSE "waiting",
                       group |-> g,
                       model |-> IF Len(g) = 1 THEN "Pipe.cuda" ELSE "Pipe",
                       futures |-> [i \in 1..(Len(g) - 1) |-> Len(calls) + i]],
          calls |-> calls \o register_calls(self, g)]

\* A process calls PipeRPCWrapper(...); the caller of a constructor that
\* raised may call it again.
NewWrapper(self) ==
    /\ wrapper[self].pc \in {"none", "AssertionError"}
    /\ \E kw \in {<<>>} \cup ProcessGroups(Len(pipeline_group)) :
       \E r \in {wrapper_init(self, kw, rpc_calls)} :
          /\ wrapper' = [wrapper EXCEPT ![self] = r.wrapper]
          /\ rpc_calls' = r.calls
    /\ UNCHANGED <<vars_oss, pipeline_group, PipeModel>>

\* register_remote_model on the process an rpc names: the process builds its
\* Pipe and keeps it in PipeModel.
RegisterRemoteModel(self) ==
    /\ \E c \in DOMAIN rpc_calls :
          /\ rpc_calls[c].to = self
          /\ ~rpc_calls[c].done
          /\ rpc_calls' = [rpc_calls EXCEPT ![c].done = TRUE]
    /\ PipeModel' = [PipeModel EXCEPT ![self] = "Pipe.cuda"]
    /\ UNCHANGED <<vars_oss, pipeline_group, wrapper>>

\* f.wait() returns for the next future of the constructor; after the last
\* one the local model is moved to cuda and the constructor returns.
WaitFuture(self) ==
    /\ wrapper[self].pc = "waiting"
    /\ rpc_calls[Head(wrapper[self].futures)].done
    /\ wrapper' = [wrapper EXCEPT
                      ![self].futures = Tail(@),
                      ![self].pc = IF Len(wrapper[self].futures) = 1
                                   THEN "constructed" ELSE @,
                      ![self].model = IF Len(wrapper[self].futures) = 1
                                      THEN "Pipe.cuda" ELSE @]
    /\ UNCHANGED <<vars_oss, pipeline_group, PipeModel, rpc_calls>>

\* The processes of a pipeline group before any of them built a wrapper; no
\* optimizer is built.
InitPipe ==
    /\ InitWith({"WORLD"})
    /\ world_size = 1
    /\ numel = [p \in Params |-> 1]
    /\ device = [p \in Params |-> "cpu"]
    /\ params = <<[params |-> <<1>>, lr |-> 1]>>
    /\ \E n \in 1..MaxPipeWorld :
          /\ pipeline_group \in {g \in ProcessGroups(n) : Len(g) = n}
          /\ wrapper = [process \in 0..(n - 1) |->
                           [pc |-> "none", group |-> <<>>, model |-> "none",
                            futures |-> <<>>]]
          /\ PipeModel = [process \in 0..(n - 1) |-> "none"]
    /\ rpc_calls = <<>>

NextPipe ==
    \/ \E self \in Processes : NewWrapper(self)
    \/ \E self \in Processes : RegisterRemoteModel(self)
    \/ \E self \in Processes : WaitFuture(self)

SpecPipe == InitPipe /\ [][NextPipe]_vars

\* ================================================================== claims
\* The ranks whose partition has been computed.
Partitioned == {self \in Ranks : DOMAIN _partition_parameters[self] # {}}

Count(s, x) == Cardinality({i \in DOMAIN s : s[i] = x})

\* The parameters rank holds in the partition P, over all groups.
Owned(P, rank) == Range(GroupParams(P[rank]))

\* The element count of what rank holds in the partition P.
Total(P, rank) ==
    LET ps == GroupParams(P[rank]) IN SumSeq([i \in DOMAIN ps |-> numel[ps[i]]])

\* C1: the partition has one record per rank and global group, and every
\* parameter of global group g is in the group-g record of exactly one rank,
\* once; no record holds a parameter its global group does not hold.
C1_PartitionExactlyOnce ==
    \A self \in Partitioned :
    \A P \in {_partition_parameters[self]} :
    \A G \in {param_groups[self]} :
        /\ DOMAIN P = Ranks
        /\ \A rank \in Ranks : Len(P[rank]) = Len(G)
        /\ \A g \in DOMAIN G :
              /\ \A p \in Range(G[g]["params"]) :
                    /\ Cardinality({rank \in Ranks :
                                       p \in Range(P[rank][g]["params"])}) = 1
                    /\ \A rank \in Ranks : Count(P[rank][g]["params"], p) <= 1
              /\ \A rank \in Ranks :
                    Range(P[rank][g]["params"]) \subseteq Range(G[g]["params"])

C1_Witness ==
    \E self \in Partitioned :
        /\ world_size >= 2
        /\ Len(param_groups[self]) >= 2
        /\ \A rank \in Ranks : Owned(_partition_parameters[self], rank) # {}

\* C2: the partition is the greedy assignment.  Along the traversal of all
\* the parameters (groups in order, parameters in order), each parameter is
\* held by the lowest rank whose load (the element counts of the parameters
\* before it that the rank holds, over all groups) is minimal, and every
\* record keeps its parameters in the order of the group.  With two ranks
\* and one group of element counts 10, 1, 1 rank 0 holds the first and
\* rank 1 the other two.
C2_GreedyReference ==
    \A self \in Partitioned :
    \A P \in {_partition_parameters[self]} :
    \A G \in {param_groups[self]} :
    \A flat \in {GroupParams(G)} :
    \A held \in {[rank \in Ranks |-> Owned(P, rank)]} :
    \A owner \in {[k \in DOMAIN flat |-> CHOOSE rank \in Ranks : flat[k] \in held[rank]]} :
    \A load \in {[k \in DOMAIN flat |-> [rank \in Ranks |->
                    SumSeq([j \in 1..(k - 1) |->
                               IF owner[j] = rank THEN numel[flat[j]] ELSE 0])]]} :
        /\ \A k \in DOMAIN flat : \A rank \in Ranks :
              /\ load[k][owner[k]] <= load[k][rank]
              /\ rank < owner[k] => load[k][rank] > load[k][owner[k]]
        /\ \A g \in DOMAIN G : \A rank \in Ranks :
              LET mine == P[rank][g]["params"]
                  pos(x) == CHOOSE i \in DOMAIN G[g]["params"] : G[g]["params"][i] = x
              IN  \A i, j \in DOMAIN mine : i < j => pos(mine[i]) < pos(mine[j])
        /\ (/\ world_size = 2
            /\ Len(G) = 1
            /\ [i \in DOMAIN flat |-> numel[flat[i]]] = <<10, 1, 1>>)
           => /\ P[0][1]["params"] = <<flat[1]>>
              /\ P[1][1]["params"] = <<flat[2], flat[3]>>

C2_Witness ==
    \E self \in Partitioned :
        LET flat == GroupParams(param_groups[self]) IN
        /\ world_size = 2
        /\ Len(param_groups[self]) = 1
        /\ [i \in DOMAIN flat |-> numel[flat[i]]] = <<10, 1, 1>>
        /\ _partition_parameters[self][1][1]["params"] = <<2, 3>>

\* C3: the largest per-rank element count exceeds the smallest by at most
\* the element count of the largest parameter.
C3_BalanceBound ==
    \A self \in Partitioned :
    \A P \in {_partition_parameters[self]} :
    \A all \in {Range(GroupParams(param_groups[self]))} :
    \A total \in {[rank \in Ranks |-> Total(P, rank)]} :
        \A a, b \in Ranks : \E p \in all : total[a] - total[b] <= numel[p]

C3_Witness ==
    \E self \in Partitioned :
        LET P == _partition_parameters[self] IN
        /\ Len(param_groups[self]) >= 2
        /\ \E a, b \in Ranks : Total(P, a) - Total(P, b) = 10

\* The assignment of a partition: which parameters each rank holds in each
\* group, without the hyperparameters.
Assignment(P) ==
    [rank \in DOMAIN P |-> [g \in DOMAIN P[rank] |-> P[rank][g]["params"]]]

\* C4: two ranks whose global groups hold the same parameters in the same
\* order hold the same assignment.
C4_SameAssignmentOnEveryRank ==
    \A a, b \in Partitioned :
        Assignment(<<param_groups[a]>>) = Assignment(<<param_groups[b]>>)
            => Assignment(_partition_parameters[a]) = Assignment(_partition_parameters[b])

C4_Witness ==
    \E a, b \in Partitioned :
        /\ a # b
        /\ Len(param_groups[a]) >= 2
        /\ Assignment(<<param_groups[a]>>) = Assignment(<<param_groups[b]>>)
        /\ \E p, q \in Params :
              /\ p # q
              /\ numel[p] = numel[q]
              /\ p \in Owned(_partition_parameters[a], 0)
              /\ q \in Owned(_partition_parameters[a], 1)

\* The ranks whose OSS object exists.
Built == {self \in Ranks : pc[self] \notin {"new", "IndexError"}}

\* The step() calls rank has begun.
Begun(rank) == steps[rank] + (IF pc[rank] \in {"waiting", "KeyError"} THEN 1 ELSE 0)

\* The parameters of the optimizer of rank self, and the rank that holds each.
ModelParams(self) == Range(GroupParams(param_groups[self]))
Owner(self, p) == _param_rank[self][p]

\* C5: when step() has returned on a rank, the rank's value of every
\* parameter is the value its owner holds after the local update of that
\* step (as long as the owner has not begun a later step): the parameter's
\* elements at the version the owner's optimizer state counts, whether the
\* parameter went through a bucket or on its own.  Ranks that returned from
\* the same step hold equal copies of all the parameters.
C5_AllRanksHoldOwnersValues ==
    \A self \in Built :
        (pc[self] = "idle" /\ steps[self] >= 1) =>
            \A p \in ModelParams(self) :
            \A owner \in {Owner(self, p)} :
                /\ Begun(owner) >= steps[self]
                /\ Begun(owner) = steps[self] =>
                      /\ data[self][p] = data[owner][p]
                      /\ data[self][p] =
                            Tensor(p, IF p \in DOMAIN optim[owner].state
                                      THEN optim[owner].state[p] ELSE 0)

C5_Witness ==
    /\ world_size >= 2
    /\ \A self \in Ranks : pc[self] = "idle" /\ steps[self] >= 1
    /\ \E p, q \in ModelParams(0) :
          /\ Owner(0, p) # 0 /\ Owner(0, q) # 0
          /\ numel[p] >= broadcast_buffer_size
          /\ numel[q] < broadcast_buffer_size
          /\ data[0][p] = Tensor(p, 1)
          /\ data[0][q] = Tensor(q, 1)

\* The requests of a rank that has issued the broadcasts of a device and
\* has not waited yet.
JustIssued(self) ==
    /\ pc[self] = "waiting"
    /\ Len(bucket_requests[self]) = world_size

\* The params of the bucket of src_rank, and the params of src_rank that
\* went out on their own, in the pass rank self is in.
Packed(self, src_rank) ==
    LET req == CHOOSE r \in Range(bucket_requests[self]) : r.src_rank = src_rank
    IN  [i \in DOMAIN req.bucket_params |-> req.bucket_params[i][1]]

Direct(self, src_rank) ==
    LET sel(h) == /\ issued[self][h].what[1] = "direct"
                  /\ Owner(self, issued[self][h].what[2]) = src_rank
        RECURSIVE pick(_)
        pick(hs) == IF hs = <<>> THEN <<>>
                    ELSE IF sel(Head(hs))
                         THEN <<issued[self][Head(hs)].what[2]>> \o pick(Tail(hs))
                         ELSE pick(Tail(hs))
    IN  pick(direct_requests[self])

\* C6: in every pass, for every source rank of the device, the element
\* counts of the params in the rank's bucket add up to no more than the
\* buffer holds, and every param of the rank's list is once in the bucket
\* or once among the direct broadcasts, and in one of the two only.
C6_PackedOrDirectOnce ==
    \A self \in Built :
        JustIssued(self) =>
            \A src_rank \in Ranks :
            \A packed \in {Packed(self, src_rank)} :
            \A direct \in {Direct(self, src_rank)} :
            \A list \in {_per_device_params[self][dev[self]].lists[src_rank]} :
                /\ Cardinality({r \in Range(bucket_requests[self]) :
                                   r.src_rank = src_rank}) = 1
                /\ SumSeq([i \in DOMAIN packed |-> numel[packed[i]]])
                      <= Len(_broadcast_buffers[self][
                                _per_device_params[self][dev[self]].device][src_rank])
                /\ \A p \in Range(list) : Count(packed, p) + Count(direct, p) = 1
                /\ Range(packed) \cup Range(direct) \subseteq Range(list)

C6_Witness ==
    \E self \in Built :
        /\ JustIssued(self)
        /\ \E src_rank \in Ranks :
              /\ Len(Packed(self, src_rank)) >= 1
              /\ Len(Direct(self, src_rank)) >= 1
        /\ \E src_rank \in Ranks :
              /\ SumSeq([i \in DOMAIN Packed(self, src_rank) |->
                            numel[Packed(self, src_rank)[i]]]) = 3
              /\ Len(Packed(self, src_rank)) = 2

\* What the collective layer sees of a call, and what the call is about.
CallShape(call) == <<call.src, Len(call.tensor), call.what>>

\* The device of the tensor of a call.
CallDevice(call) ==
    IF call.what[1] = "bucket" THEN call.what[2] ELSE device[call.what[2]]

\* The place of the first parameter on device d in the traversal of the groups.
FirstOn(self, d) ==
    LET flat == GroupParams(param_groups[self])
    IN  CHOOSE i \in DOMAIN flat :
            /\ device[flat[i]] = d
            /\ \A j \in DOMAIN flat : device[flat[j]] = d => i <= j

\* The devices whose broadcasts rank self has issued in its last step().
Visited(self) ==
    {d \in {device[p] : p \in ModelParams(self)} :
        \/ pc[self] = "idle" /\ steps[self] >= 1
        \/ /\ pc[self] = "waiting"
           /\ FirstOn(self, d) <= FirstOn(self, _per_device_params[self][dev[self]].device)}

\* C7: any two ranks issue the same broadcasts in the same order (the same
\* source, the same size, the same tensor of the model), and as many of
\* them once they returned from the same step.  Within a step the devices
\* come in the order of their first parameter in the traversal of the
\* groups and the source ranks in increasing order within a device, and
\* every source rank has exactly one bucket broadcast on every device, also
\* when it holds no parameter there.
C7_SameBroadcastsOnEveryRank ==
    /\ \A a, b \in Ranks :
          /\ \A h \in DOMAIN issued[a] \cap DOMAIN issued[b] :
                CallShape(issued[a][h]) = CallShape(issued[b][h])
          /\ (pc[a] = "idle" /\ pc[b] = "idle" /\ steps[a] = steps[b])
                => Len(issued[a]) = Len(issued[b])
    /\ \A self \in Built :
       \A segment \in {(step_start[self] + 1)..Len(issued[self])} :
          /\ \A h, i \in segment :
                h < i =>
                    LET ch == issued[self][h]
                        ci == issued[self][i]
                        dh == FirstOn(self, CallDevice(ch))
                        di == FirstOn(self, CallDevice(ci))
                    IN  \/ dh < di
                        \/ dh = di /\ LocalRank(ch.src) <= LocalRank(ci.src)
          /\ \A d \in Visited(self) : \A src_rank \in Ranks :
                Cardinality({h \in segment :
                                issued[self][h].what = <<"bucket", d, src_rank>>}) = 1
          /\ \A h \in segment :
                /\ CallDevice(issued[self][h]) \in Visited(self)
                /\ issued[self][h].what[1] = "direct" =>
                      issued[self][h].src =
                          get_global_rank(group, Owner(self, issued[self][h].what[2]))
                /\ issued[self][h].what[1] = "bucket" =>
                      issued[self][h].src = get_global_rank(group, issued[self][h].what[3])

C7_Witness ==
    /\ world_size >= 2
    /\ group = "custom"
    /\ \A self \in Ranks : pc[self] = "idle" /\ steps[self] >= 1
    /\ Len(_per_device_params[0]) = 2
    /\ \E k \in 1..2 : _per_device_params[0][k].lists[1] = <<>>
    /\ \E h \in DOMAIN issued[1] : issued[1][h].what[1] = "direct"

\* Every rank is a process of its own that runs: it builds its optimizer,
\* calls step() as often as the others, and goes on after a wait whose
\* broadcast is complete.  This is the weak fairness WF_vars(A) of each of
\* the rank's steps A, []<>~ENABLED <<A>>_vars \/ []<><<A>>_vars, with the
\* enabling condition of the step written out.
FairStep ==
    /\ SpecStep
    /\ \A rank \in 0..(MaxWorld - 1) :
          /\ []<>~ConstructEnabled(rank)
                \/ []<><<rank \in Ranks /\ Construct(rank)>>_vars
          /\ []<>~StepEnabled(rank)
                \/ []<><<rank \in Ranks /\ Step(rank)>>_vars
          /\ []<>~WaitBucketEnabled(rank)
                \/ []<><<rank \in Ranks /\ WaitBucket(rank)>>_vars
          /\ []<>~WaitDirectEnabled(rank)
                \/ []<><<rank \in Ranks /\ WaitDirect(rank)>>_vars

AllBuilt == \A rank \in Ranks : pc[rank] \notin {"new", "IndexError"}

AllReturned ==
    \A rank \in Ranks :
        /\ pc[rank] = "idle"
        /\ steps[rank] = MaxSteps
        /\ bucket_requests[rank] = <<>>
        /\ direct_requests[rank] = <<>>

\* C8: once every rank has built its optimizer, and every rank calls
\* step(), every wait completes and step() returns on every rank.
C8_StepReturnsOnEveryRank == AllBuilt ~> AllReturned

C8_Witness ==
    /\ world_size >= 2
    /\ AllReturned
    /\ \E h \in DOMAIN issued[0] : issued[0][h].what[1] = "direct"
    /\ \E h \in DOMAIN issued[0] :
          issued[0][h].what[1] = "bucket" /\ issued[0][h].tensor[1] # <<0, 0>>

\* Whether a payload is the throwaway one.
Throwaway(obj) == "tensor" \in DOMAIN obj

\* C9: every rank calls broadcast_object once per turn, in the order of the
\* turns 0..world_size-1, world_size times in a consolidation that
\* returned; in turn k it names the global rank of rank k as the source.
\* A rank that is not the recipient it was given sends its local state dict
\* in its own turn and a throwaway payload in the others; a recipient sends
\* a throwaway payload in every turn, its own too.
C9_OneBroadcastObjectPerTurn ==
    \A self \in Built :
    \A calls \in {objects[self]} :
        /\ pc[self] = "idle" => Len(calls) = world_size * consolidations[self]
        /\ pc[self] = "consolidating" =>
              Len(calls) = world_size * (consolidations[self] - 1) + turn[self] + 1
        /\ \A h \in DOMAIN calls :
           \A k \in {(h - 1) % world_size} :
              /\ calls[h].what.turn = k
              /\ calls[h].src = get_global_rank(group, k)
              /\ (calls[h].what.recipient # self /\ k = self) =>
                    /\ ~Throwaway(calls[h].obj)
                    \* the rank's state dict: it is the same until the rank's
                    \* next step() or consolidate_state_dict()
                    /\ (/\ h > world_size * (consolidations[self] - 1)
                        /\ steps[self] = calls[h].what.steps
                        /\ pc[self] # "waiting")
                          => calls[h].obj = local_state_dict(optim[self])
              /\ (calls[h].what.recipient = self \/ k # self) =>
                    calls[h].obj = empty_buffer(self)

C9_Witness ==
    /\ world_size >= 2
    /\ group = "custom"
    /\ \A self \in Ranks : pc[self] = "idle" /\ consolidations[self] >= 1
    /\ recipient_rank[0] # recipient_rank[1]
    /\ steps[1] >= 1
    /\ \E h \in DOMAIN objects[1] :
          ~Throwaway(objects[1][h].obj) /\ objects[1][h].obj.state # <<>>

\* The recipients every rank was given in a consolidation that returned on
\* every rank, with no step() begun on any rank since.
Consolidated ==
    {recipient \in Ranks :
        \A rank \in Ranks :
            /\ pc[rank] = "idle"
            /\ consolidations[rank] >= 1
            /\ recipient_rank[rank] = recipient
            /\ objects[rank][Len(objects[rank])].what.steps = steps[rank]}

\* C10: after a consolidation with the same recipient on every rank and no
\* step() since, rank_local_state_dict(r, state_dict()) on the recipient is
\* rank r's local_state_dict(), for every rank r: the same state, kept on
\* cpu, and the same groups.
C10_ConsolidationRoundTrip ==
    \A recipient \in Consolidated :
    \A sd \in {state_dict(recipient)} :
        /\ ~sd.local_state_dict
        /\ \A r \in Ranks :
              rank_local_state_dict(r, sd) =
                  recursive_copy_to_device(local_state_dict(optim[r]), "cpu")

C10_Witness ==
    /\ world_size >= 2
    /\ 1 \in Consolidated
    /\ Len(params) = 2
    /\ \A r \in Ranks : steps[r] >= 1 /\ optim[r].state # <<>>
    /\ \E r \in Ranks : optim[r].param_groups[1].lr = 2
    /\ \E r \in Ranks : \E p \in DOMAIN optim[r].state : device[p] = "cuda"


\* The ranks that hold collected states, each of them a state dict: the
\* ranks that were the recipient of a consolidation in which every rank sent
\* its state.
Collected ==
    {self \in Built :
        /\ Len(_all_states[self]) # 0
        /\ \A i \in DOMAIN _all_states[self] : ~Throwaway(_all_states[self][i])}

\* C11: on a rank that holds no collected states, state_dict() returns the
\* state dict of the local optimizer with local_state_dict = TRUE, and logs
\* a warning; it raises nothing.  On a rank that holds the collected states
\* it returns the keys state, param_groups, partition and local_state_dict,
\* with local_state_dict = FALSE, one state per rank in rank order, and the
\* groups of the ranks one after the other, the partition giving the place
\* of each rank's groups.
C11_StateDictLocalOrGlobal ==
    \A self \in Built :
    \A sd \in {IF Len(_all_states[self]) = 0 \/ self \in Collected
               THEN state_dict(self) ELSE <<>>} :
        /\ Len(_all_states[self]) = 0 =>
              /\ DOMAIN sd = {"state", "param_groups", "local_state_dict"}
              /\ sd.local_state_dict = TRUE
              /\ sd.state = local_state_dict(optim[self]).state
              /\ sd.param_groups = local_state_dict(optim[self]).param_groups
              /\ Len(state_dict_warnings(self)) > 0
        /\ self \in Collected =>
              /\ DOMAIN sd = {"state", "param_groups", "partition", "local_state_dict"}
              /\ sd.local_state_dict = FALSE
              /\ DOMAIN sd.state = 1..world_size
              /\ DOMAIN sd.partition = 1..world_size
              /\ Len(sd.param_groups) = sd.partition[world_size][2]
              /\ \A r \in Ranks :
                    /\ sd.state[r + 1] = _all_states[self][r + 1].state
                    /\ SubSeq(sd.param_groups, sd.partition[r + 1][1] + 1,
                              sd.partition[r + 1][2])
                          = _all_states[self][r + 1].param_groups

\* A recipient holds the states of two ranks that have stepped, and the
\* other rank holds none.
C11_Witness ==
    /\ world_size = 2
    /\ \E self \in Collected :
       \E other \in Built :
          /\ Len(_all_states[other]) = 0
          /\ state_dict(other).local_state_dict
          /\ ~state_dict(self).local_state_dict
          /\ \A r \in Ranks : state_dict(self).state[r + 1] # <<>>

\* Whether no consolidation ever named rank self the recipient on rank self.
NeverRecipient(self) ==
    \A h \in DOMAIN objects[self] : objects[self][h].what.recipient # self

\* C12: a step of consolidate_state_dict() on a rank that is not the
\* recipient it was given leaves the rank's collected states as they were;
\* a rank that was never the recipient holds none, and its state_dict() is
\* the local one, marked.
C12_NonRecipientKeepsStates ==
    [][\A self \in Ranks :
          /\ (/\ pc[self] = "consolidating" \/ pc'[self] = "consolidating"
              /\ recipient_rank'[self] # self)
                => _all_states'[self] = _all_states[self]
          /\ (pc'[self] \notin {"new", "IndexError"} /\ NeverRecipient(self)')
                => /\ _all_states'[self] = <<>>
                   /\ state_dict(self)'.local_state_dict]_vars

\* Rank 1 has returned from a consolidation whose recipient is rank 0, which
\* holds the states of both ranks.
C12_Witness ==
    /\ world_size = 2
    /\ 0 \in Collected
    /\ pc[1] = "idle"
    /\ consolidations[1] >= 1
    /\ recipient_rank[1] = 0
    /\ _all_states[1] = <<>>
    /\ state_dict(1).local_state_dict

\* Whether some rank has begun a step() since the call of
\* consolidate_state_dict() that gave rank self its collected states.
Stale(self) ==
    /\ self \in Collected
    /\ \E rank \in Ranks :
          /\ objects[rank] # <<>>
          /\ Begun(rank) > objects[rank][Len(objects[rank])].what.steps

\* C13: whenever state_dict() returns the collected states and some rank
\* has stepped since they were collected, state_dict() logs a warning.
C13_StalenessSignalled ==
    \A self \in Built :
        (Stale(self) /\ ~state_dict(self).local_state_dict)
            => Len(state_dict_warnings(self)) > 0

\* The hyperparameters of a list of groups: every group without its params.
Hyper(groups) ==
    [i \in DOMAIN groups |-> [k \in HyperKeys(groups[i]) |-> groups[i][k]]]

\* The parameters of a list of groups, group by group.
ParamLists(groups) == [i \in DOMAIN groups |-> groups[i].params]

\* Rank self calls load_state_dict() with checkpoint c in this step; the call
\* returns, or it raises.
Loads(self, c) ==
    /\ c \in DOMAIN checkpoints
    /\ loads'[self] = Append(loads[self], c)
Returns(self) == pc'[self] = "idle"
Raises(self) == pc'[self] = "ValueError"

\* C14: load_state_dict(state_dict()) on a rank that holds no collected
\* states leaves the state of the local optimizer, the hyperparameters of
\* the local groups and the hyperparameters of the global groups as they
\* were.
C14_LocalRoundTrip ==
    [][\A self \in Ranks : \A c \in DOMAIN checkpoints :
          (/\ Loads(self, c)
           /\ Len(_all_states[self]) = 0
           /\ checkpoints[c].rank = self
           /\ checkpoints[c].sd = state_dict(self))
             => /\ Returns(self)
                /\ optim'[self].state = optim[self].state
                /\ Hyper(optim'[self].param_groups) = Hyper(optim[self].param_groups)
                /\ Hyper(param_groups'[self]) = Hyper(param_groups[self])]_vars

\* The shard load_state_dict() hands to the local optimizer on rank self:
\* a local dict itself, the rank's state and the rank's slice of the groups
\* of a global one.
Shard(self, sd) ==
    IF sd.local_state_dict THEN [state |-> sd.state, param_groups |-> sd.param_groups]
    ELSE [state |-> sd.state[self + 1],
          param_groups |->
              [i \in 1..(sd.partition[self + 1][2] - sd.partition[self + 1][1]) |->
                  sd.param_groups[sd.partition[self + 1][1] + i]]]

\* C15: a load_state_dict() that returns has given the local optimizer the
\* dict itself if the dict is flagged local, and the shard of the rank if it
\* is not: group i has the hyperparameters of group i of that shard, and the
\* k-th parameter of the local optimizer has the state the shard holds under
\* the id k - 1, and none if the shard holds none.  It raises when the shard
\* has another number of groups, or a group of another size, than the local
\* optimizer.
C15_LoadDispatchesOnFlag ==
    [][\A self \in Ranks : \A c \in DOMAIN checkpoints :
          Loads(self, c) =>
             \A shard \in {Shard(self, checkpoints[c].sd)} :
             \A flat \in {GroupParams(optim[self].param_groups)} :
                /\ Returns(self) \/ Raises(self)
                /\ Returns(self) <=>
                      [i \in DOMAIN shard.param_groups |->
                          Len(shard.param_groups[i].params)]
                      = [i \in DOMAIN optim[self].param_groups |->
                          Len(optim[self].param_groups[i].params)]
                /\ Returns(self) =>
                      /\ Hyper(optim'[self].param_groups) = Hyper(shard.param_groups)
                      /\ ParamLists(optim'[self].param_groups)
                            = ParamLists(optim[self].param_groups)
                      /\ DOMAIN optim'[self].state
                            = {flat[k] : k \in {j \in DOMAIN flat : j - 1 \in DOMAIN shard.state}}
                      /\ \A k \in DOMAIN flat :
                            k - 1 \in DOMAIN shard.state =>
                               optim'[self].state[flat[k]] = shard.state[k - 1].step]_vars

\* Rank 1 has loaded a global dict that holds a state for its parameters, and
\* rank 0 was handed a dict too.
C15_Witness ==
    /\ world_size = 2
    /\ pc[1] = "idle"
    /\ loads[0] # <<>>
    /\ loads[1] # <<>>
    /\ ~checkpoints[loads[1][1]].sd.local_state_dict
    /\ DOMAIN checkpoints[loads[1][1]].sd.state[2] # {}
    /\ DOMAIN optim[1].state # {}

\* Whether checkpoint c was saved for other parameters than those of the
\* local optimizer of rank self, position by position: a local dict of
\* another rank, whose local optimizer holds other parameters.
Mismatch(self, c) ==
    /\ checkpoints[c].sd.local_state_dict
    /\ ParamLists(optim[checkpoints[c].rank].param_groups)
          # ParamLists(optim[self].param_groups)

\* C16: load_state_dict() with a checkpoint whose parameters are not those
\* of the local optimizer raises, and changes neither the local optimizer
\* nor the global groups.
C16_MismatchIsHardError ==
    [][\A self \in Ranks : \A c \in DOMAIN checkpoints :
          (Loads(self, c) /\ Mismatch(self, c))
             => /\ Raises(self)
                /\ optim'[self] = optim[self]
                /\ param_groups'[self] = param_groups[self]]_vars

\* C17: when load_state_dict() returns, every key but "params" of local
\* group i has the same value in global group i, and the global groups hold
\* the parameters they held.
C17_LoadRestoresGlobalGroups ==
    [][\A self \in Ranks : \A c \in DOMAIN checkpoints :
          (Loads(self, c) /\ Returns(self)) =>
             /\ ParamLists(param_groups'[self]) = ParamLists(param_groups[self])
             /\ \A i \in DOMAIN optim'[self].param_groups :
                   i \in DOMAIN param_groups'[self] =>
                      \A k \in HyperKeys(optim'[self].param_groups[i]) :
                         /\ k \in DOMAIN param_groups'[self][i]
                         /\ param_groups'[self][i][k] = optim'[self].param_groups[i][k]]_vars

\* Rank 1 has loaded a checkpoint of rank 0 whose lr is not the initial one,
\* and its global groups have that lr.
C17_Witness ==
    /\ world_size = 2
    /\ pc[1] = "idle"
    /\ loads[1] # <<>>
    /\ checkpoints[loads[1][1]].rank = 0
    /\ checkpoints[loads[1][1]].sd.param_groups[1].lr = 2
    /\ param_groups[1][1].lr = 2
    /\ optim[1].param_groups[1].lr = 2

\* Rank self enters step() in this step, and step() returns on rank self in
\* this step.
StepBegins(self) ==
    /\ pc[self] = "idle"
    /\ pc'[self] \in {"waiting", "KeyError"} \/ steps'[self] = steps[self] + 1
StepReturns(self) == steps'[self] = steps[self] + 1

\* C18: when step() begins, every key but "params" that local group i and
\* global group i both hold takes the global value in the local group; the
\* keys the local group alone holds, the keys of the groups and the params of
\* the local and of the global groups stay as they were.
C18_StepSyncsGlobalToLocal ==
    [][\A self \in Ranks :
          StepBegins(self) =>
             \A global \in {param_groups[self]} :
             \A local \in {optim[self].param_groups} :
             \A after \in {optim'[self].param_groups} :
                /\ DOMAIN after = DOMAIN local
                /\ ParamLists(after) = ParamLists(local)
                /\ ParamLists(param_groups'[self]) = ParamLists(global)
                /\ \A i \in DOMAIN local :
                      /\ DOMAIN after[i] = DOMAIN local[i]
                      /\ \A k \in HyperKeys(local[i]) :
                            after[i][k] =
                                IF i \in DOMAIN global /\ k \in DOMAIN global[i]
                                THEN global[i][k] ELSE local[i][k]]_vars

\* The groups for which the local optimizer of rank self holds a key that
\* the global group does not.
LocalOnly(self) ==
    {i \in DOMAIN optim[self].param_groups :
        /\ i \in DOMAIN param_groups[self]
        /\ HyperKeys(optim[self].param_groups[i]) \ DOMAIN param_groups[self][i] # {}}

\* A rank is in step() with the lr a scheduler set in its local group, and
\* with a local group that holds a key its global group does not.
C18_Witness ==
    \E self \in Built :
        /\ pc[self] = "waiting"
        /\ world_size = 2
        /\ optim[self].param_groups[1].lr = 2
        /\ param_groups[self][1].lr = 2
        /\ LocalOnly(self) # {}

\* C19: when step() returns, every key but "params" of local group i is a
\* key of global group i with the same value.
C19_StepSyncsLocalToGlobal ==
    [][\A self \in Ranks :
          StepReturns(self) =>
             \A i \in DOMAIN optim'[self].param_groups :
                i \in DOMAIN param_groups'[self] =>
                   \A k \in HyperKeys(optim'[self].param_groups[i]) :
                      /\ k \in DOMAIN param_groups'[self][i]
                      /\ param_groups'[self][i][k] = optim'[self].param_groups[i][k]]_vars

\* step() has returned on both ranks with two groups, the second of them
\* added after the construction, and the global group has the key the local
\* optimizer gave its own.
C19_Witness ==
    /\ world_size = 2
    /\ \A self \in Ranks :
          /\ pc[self] = "idle"
          /\ steps[self] >= 1
          /\ Len(params) = 1
          /\ Len(param_groups[self]) = 2
          /\ Len(optim[self].param_groups) = 2
          /\ LocalOnly(self) = {}
          /\ "momentum" \in DOMAIN param_groups[self][2]

\* The parameters the partition of rank self gives to another rank.
OthersParams(self) ==
    UNION {Owned(_partition_parameters[self], rank) : rank \in Ranks \ {self}}

\* C20: the step that begins step() frees the grad of every parameter the
\* partition gives to another rank and of no other parameter, and the local
\* optimizer updates no parameter without a grad; when step() returns no
\* parameter of another rank has a grad, and the grads the rank's own
\* parameters had when step() began are still there.
C20_FreesOtherRanksGrads ==
    [][\A self \in Ranks :
          /\ StepBegins(self) =>
                \A p \in Params :
                   /\ grad'[self][p] =
                         IF p \in OthersParams(self)' THEN FALSE ELSE grad[self][p]
                   /\ (p \in DOMAIN optim'[self].state /\ ~grad'[self][p])
                         => /\ p \in DOMAIN optim[self].state
                            /\ optim'[self].state[p] = optim[self].state[p]
          /\ StepReturns(self) =>
                \A p \in OthersParams(self)' : ~grad'[self][p]
          /\ (pc[self] = "waiting" /\ pc'[self] \in {"waiting", "idle"}) =>
                grad'[self] = grad[self]]_vars

\* step() has returned on both ranks after a backward pass: each rank still
\* has the grads of its own parameters and none of the other rank's.
C20_Witness ==
    /\ world_size = 2
    /\ \A self \in Ranks :
          /\ pc[self] = "idle"
          /\ steps[self] >= 1
          /\ _partition_parameters[self] # <<>>
          /\ Owned(_partition_parameters[self], self) # {}
          /\ \A p \in Owned(_partition_parameters[self], self) : grad[self][p]
          /\ \A p \in OthersParams(self) : ~grad[self][p]
          /\ DOMAIN optim[self].state # {}

\* The exception of the wrapped optimizer leaves step() on rank self in this
\* step.
StepRaisesNow(self) == pc[self] = "idle" /\ pc'[self] = "raised"

\* C21: when the wrapped optimizer raises in step(), the exception leaves
\* step() and step() is not entered again: the rank has issued no broadcast
\* and counted no step, its global groups are what they were, every key its
\* local and global group share has the global value in the local group, and
\* the grads of the other ranks' params are freed, its own kept.
C21_StepPropagatesException ==
    [][\A self \in Ranks :
          /\ StepRaisesNow(self) =>
                /\ issued'[self] = issued[self]
                /\ bucket_requests'[self] = bucket_requests[self]
                /\ direct_requests'[self] = direct_requests[self]
                /\ steps'[self] = steps[self]
                /\ param_groups'[self] = param_groups[self]
                /\ \A i \in DOMAIN optim[self].param_groups :
                   \A k \in HyperKeys(optim[self].param_groups[i]) :
                      optim'[self].param_groups[i][k] =
                          IF i \in DOMAIN param_groups[self]
                             /\ k \in DOMAIN param_groups[self][i]
                          THEN param_groups[self][i][k]
                          ELSE optim[self].param_groups[i][k]
                /\ \A p \in Params :
                      grad'[self][p] =
                          IF p \in OthersParams(self)' THEN FALSE ELSE grad[self][p]
          /\ pc[self] = "raised" =>
                /\ pc'[self] = "raised"
                /\ issued'[self] = issued[self]
                /\ param_groups'[self] = param_groups[self]
                /\ optim'[self] = optim[self]]_vars

\* The wrapped optimizer raised on a rank whose lr a scheduler had set and
\* whose local optimizer holds a key the global group does not: the local
\* group has the lr, the global group has not got the key, and the rank had
\* grads of the other rank's params.
C21_Witness ==
    \E self \in Built :
        /\ world_size = 2
        /\ pc[self] = "raised"
        /\ optim[self].param_groups[1].lr = 2
        /\ LocalOnly(self) # {}
        /\ issued[self] = <<>>
        /\ \E p \in Params : grad[self][p]
        /\ OthersParams(self) # {}
        /\ DOMAIN optim[self].state # {}

\* Rank self calls add_param_group() in this step.
AddsGroup(self) ==
    /\ pc[self] = "idle"
    /\ Len(param_groups'[self]) = Len(param_groups[self]) + 1

\* Whether the partition P of the groups G is complete and disjoint: every
\* parameter of group g is in the group-g record of exactly one rank, once,
\* and the records hold nothing else.
CompleteDisjoint(P, G) ==
    /\ DOMAIN P = Ranks
    /\ \A rank \in Ranks : DOMAIN P[rank] = DOMAIN G
    /\ \A g \in DOMAIN G :
          /\ \A p \in Range(G[g].params) :
                \E rank \in Ranks :
                   /\ Count(P[rank][g].params, p) = 1
                   /\ \A other \in Ranks \ {rank} : Count(P[other][g].params, p) = 0
          /\ \A rank \in Ranks : Range(P[rank][g].params) \subseteq Range(G[g].params)

\* Whether no rank of the partition P holds more elements than another by
\* more than the largest parameter of the groups G.
Balanced(P, G) ==
    \A a, b \in Ranks :
        \E p \in Range(GroupParams(G)) : Total(P, a) - Total(P, b) <= numel[p]

\* C22: add_param_group() leaves a partition of the enlarged list of global
\* groups that is complete, disjoint and balanced, and the local optimizer
\* with its groups of before and one more: the last group of the rank's new
\* partition, with the parameters of the added group the rank holds.
C22_AddParamGroupRepartitions ==
    [][\A self \in Ranks :
          AddsGroup(self) =>
             \A G \in {param_groups'[self]} :
             \A P \in {_partition_parameters'[self]} :
             \A local \in {optim'[self].param_groups} :
                /\ CompleteDisjoint(P, G)
                /\ Balanced(P, G)
                /\ Len(local) = Len(optim[self].param_groups) + 1
                /\ SubSeq(local, 1, Len(local) - 1) = optim[self].param_groups
                /\ Len(local) = Len(P[self])
                /\ local[Len(local)].params = P[self][Len(P[self])].params
                /\ Range(local[Len(local)].params) \subseteq Range(G[Len(G)].params)]_vars

\* A group was added on a rank of two: the rank holds parameters of the
\* groups of before and none of the added group, whose local group is empty.
C22_Witness ==
    \E self \in Built :
        /\ world_size = 2
        /\ pc[self] = "idle"
        /\ Len(param_groups[self]) = Len(params) + 1
        /\ Len(optim[self].param_groups) = Len(param_groups[self])
        /\ optim[self].param_groups[Len(param_groups[self])].params = <<>>
        /\ optim[self].param_groups[1].params # <<>>
        /\ \E p \in Range(param_groups[self][Len(param_groups[self])].params) :
              numel[p] = 10

\* Whether the three views of rank self, as far as they are computed in the
\* state, cover the parameters of the global groups and agree: the rank of
\* every parameter holds it in the partition, and the table has it in the
\* list of that rank under the parameter's device.
ViewsAgree(self) ==
    \A G \in {param_groups[self]} :
    \A P \in {_partition_parameters[self]} :
    \A ranks \in {_param_rank[self]} :
    \A table \in {_per_device_params[self]} :
        /\ CompleteDisjoint(P, G)
        /\ ranks # <<>> =>
              /\ DOMAIN ranks = Range(GroupParams(G))
              /\ \A p \in DOMAIN ranks : p \in Owned(P, ranks[p])
        /\ table # <<>> =>
              /\ ranks # <<>>
              /\ \A p \in Range(GroupParams(G)) :
                    \E i \in DOMAIN table :
                       /\ table[i].device = device[p]
                       /\ Count(table[i].lists[ranks[p]], p) = 1

\* C23: the partition, the table of per_device_params and the map of
\* param_to_rank are cached and cleared together.  A read between two
\* add_param_group() calls leaves a computed view as it is; add_param_group()
\* computes the partition again and leaves the other two to be computed at
\* their next read; and in every state the views that are computed cover the
\* parameters of the global groups and agree with each other.
C23_CachesInvalidatedTogether ==
    [][\A self \in Ranks :
          /\ pc'[self] = "idle" => ViewsAgree(self)'
          /\ AddsGroup(self) =>
                /\ _param_rank'[self] = <<>>
                /\ _per_device_params'[self] = <<>>
          /\ (pc[self] = "idle" /\ pc'[self] = "idle" /\ ~AddsGroup(self)) =>
                /\ _partition_parameters'[self] = _partition_parameters[self]
                /\ _param_rank[self] # <<>> => _param_rank'[self] = _param_rank[self]
                /\ _per_device_params[self] # <<>> =>
                      _per_device_params'[self] = _per_device_params[self]]_vars

\* After a group was added on two ranks, one has read the table again, which
\* has the parameters of the added group, and the other the map alone.
C23_Witness ==
    /\ world_size = 2
    /\ \A self \in Ranks :
          /\ pc[self] = "idle"
          /\ Len(param_groups[self]) = Len(params) + 1
          /\ _param_rank[self] # <<>>
    /\ _per_device_params[0] # <<>>
    /\ _per_device_params[1] = <<>>
    /\ ViewsAgree(0)

\* Process self calls the constructor of PipeRPCWrapper in this step.
Constructs(self) ==
    /\ wrapper[self].pc \in {"none", "AssertionError"}
    /\ wrapper'[self] # wrapper[self]

\* C24: the constructor of PipeRPCWrapper, called on a process that is not
\* rank 0 of the pipeline group, fails with an AssertionError: no local Pipe
\* is built and no rpc is issued.  So the process with a wrapper, built or
\* waiting for its registrations, is rank 0 of the pipeline group, and every
\* rpc was issued by it.
C24_WrapperOnlyOnRankZero ==
    [][/\ \A self \in Processes :
             (Constructs(self) /\ group_rank(pipeline_group, self) # 0)
                => /\ wrapper'[self].pc = "AssertionError"
                   /\ wrapper'[self].model = "none"
                   /\ wrapper'[self].futures = <<>>
                   /\ rpc_calls' = rpc_calls
       /\ \A self \in Processes :
             wrapper'[self].pc \in {"waiting", "constructed"}
                => self = pipeline_group[1]
       /\ \A c \in DOMAIN rpc_calls' :
             rpc_calls'[c].caller = pipeline_group[1]]_vars

\* The process of rank 0 has built its wrapper and registered the model on
\* the other processes; a process of another rank whose global rank is 0
\* called the constructor with a group in which it has rank 0, and failed.
C24_Witness ==
    /\ Len(pipeline_group) = 3
    /\ pipeline_group[1] # 0
    /\ wrapper[pipeline_group[1]].pc = "constructed"
    /\ \A self \in Processes \ {pipeline_group[1]} : PipeModel[self] = "Pipe.cuda"
    /\ wrapper[0].pc = "AssertionError"
    /\ group_rank(wrapper[0].group, 0) = 0
    /\ \A self \in Processes \ {pipeline_group[1]} : wrapper[self].pc = "AssertionError"

\* C25: the partition of the global state_dict() has one (start, end) per
\* rank, as the state has one entry per rank; the first start is 0, every
\* end is the next start, the last end is the number of the flattened
\* groups, and end - start is the number of groups of the rank's collected
\* state.
C25_PartitionMapContiguous ==
    \A self \in Collected :
    \A sd \in {state_dict(self)} :
    \A partition \in {sd.partition} :
        /\ Len(partition) = world_size
        /\ Len(sd.state) = world_size
        /\ Len(_all_states[self]) = world_size
        /\ partition[1][1] = 0
        /\ \A r \in 1..(world_size - 1) : partition[r][2] = partition[r + 1][1]
        /\ partition[world_size][2] = Len(sd.param_groups)
        /\ \A r \in 1..world_size :
              /\ Len(partition[r]) = 2
              /\ partition[r][2] - partition[r][1] = Len(_all_states[self][r].param_groups)

\* A recipient holds the states of two ranks of two groups each: the
\* partition is (0, 2), (2, 4).
C25_Witness ==
    \E self \in Collected :
        /\ world_size = 2
        /\ state_dict(self).partition = <<<<0, 2>>, <<2, 4>>>>
        /\ Len(state_dict(self).param_groups) = 4

\* C26: the table of per_device_params has one entry for every device that
\* a parameter of the global groups is on and for no other, each of
\* world_size lists; every parameter of the global groups is in the table
\* once, in the list of its rank under its device; and along every list the
\* element counts do not decrease.
C26_DeviceRankTable ==
    \A self \in Built :
    \A table \in {_per_device_params[self]} :
    \A all \in {Range(GroupParams(param_groups[self]))} :
        (pc[self] = "idle" /\ table # <<>>) =>
           /\ {table[i].device : i \in DOMAIN table} = {device[p] : p \in all}
           /\ \A i, j \in DOMAIN table : table[i].device = table[j].device => i = j
           /\ \A i \in DOMAIN table :
                 /\ DOMAIN table[i].lists = Ranks
                 /\ \A rank \in Ranks :
                    \A list \in {table[i].lists[rank]} :
                       /\ \A k \in DOMAIN list :
                             /\ list[k] \in all
                             /\ device[list[k]] = table[i].device
                             /\ list[k] \in Owned(_partition_parameters[self], rank)
                       /\ \A k \in 1..(Len(list) - 1) :
                             numel[list[k]] <= numel[list[k + 1]]
           /\ \A p \in all :
                 Cardinality({<<i, rank, k>> \in
                                 {<<i, rank, k>> \in
                                     (DOMAIN table) \X Ranks \X (1..MaxParams) :
                                         k \in DOMAIN table[i].lists[rank]} :
                                 table[i].lists[rank][k] = p}) = 1

\* A table of two devices on two ranks, with a list the sort put in another
\* order than the order of the group.
C26_Witness ==
    \E self \in Built :
        /\ pc[self] = "idle"
        /\ world_size = 2
        /\ Len(_per_device_params[self]) = 2
        /\ \E i \in DOMAIN _per_device_params[self] : \E rank \in Ranks :
              \E list \in {_per_device_params[self][i].lists[rank]} :
                 /\ Len(list) >= 2
                 /\ list[1] > list[2]
                 /\ numel[list[1]] < numel[list[2]]

\* The element count of the first k params of a list, and the length of the
\* longest prefix of the list that stays strictly below a capacity.
PrefixNumel(list, k) == SumSeq([i \in 1..k |-> numel[list[i]]])

FitLen(list, capacity) ==
    CHOOSE k \in 0..Len(list) :
        /\ k > 0 => PrefixNumel(list, k) < capacity
        /\ k < Len(list) => PrefixNumel(list, k + 1) >= capacity

\* The bucket request of src_rank in the pass rank self is in.
BucketOf(self, src_rank) ==
    CHOOSE r \in Range(bucket_requests[self]) : r.src_rank = src_rank

\* C27: in every pass, for every source rank of the device, the params in
\* the rank's bucket are the longest prefix of the rank's list, sorted by
\* size, whose element count stays strictly below the capacity of the
\* buffer (a param that would fill the buffer to the brim is not packed);
\* the i-th of them lies at [offset, end) = [count of the i - 1 before it,
\* count of the i first], and the params after the prefix, in the order of
\* the list, are the ones broadcast on their own, however large they are.
C27_LongestPrefixBelowCapacity ==
    \A self \in Built :
        JustIssued(self) =>
            \A src_rank \in Ranks :
            \A list \in {_per_device_params[self][dev[self]].lists[src_rank]} :
            \A capacity \in {Len(_broadcast_buffers[self][
                                _per_device_params[self][dev[self]].device][0])} :
            \A k \in {FitLen(list, capacity)} :
            \A req \in {BucketOf(self, src_rank)} :
                /\ \A i \in 1..(Len(list) - 1) : numel[list[i]] <= numel[list[i + 1]]
                /\ Len(req.bucket_params) = k
                /\ \A i \in 1..k :
                      req.bucket_params[i] =
                          <<list[i], PrefixNumel(list, i - 1), PrefixNumel(list, i)>>
                /\ k > 0 => PrefixNumel(list, k) < capacity
                /\ Direct(self, src_rank) = SubSeq(list, k + 1, Len(list))
                /\ \A p \in Range(list) :
                      numel[p] >= capacity => Count(Direct(self, src_rank), p) = 1

\* A pass in which the second param of a rank would bring the offset to the
\* capacity exactly and goes out on its own, and one in which a rank holds a
\* param larger than the buffer.
C27_Witness ==
    \E self \in Built :
        /\ JustIssued(self)
        /\ \E src_rank \in Ranks :
           \E list \in {_per_device_params[self][dev[self]].lists[src_rank]} :
              /\ Len(list) >= 2
              /\ PrefixNumel(list, 2) = broadcast_buffer_size
              /\ Len(BucketOf(self, src_rank).bucket_params) = 1
              /\ Direct(self, src_rank) = SubSeq(list, 2, Len(list))
        /\ \E src_rank \in Ranks :
           \E p \in Range(_per_device_params[self][dev[self]].lists[src_rank]) :
              /\ numel[p] > broadcast_buffer_size
              /\ Count(Direct(self, src_rank), p) = 1

\* Rank self issues the broadcasts of a device: the requests it holds after
\* the step are the ones of this pass, none waited for yet.
IssuesPass(self) ==
    /\ pc'[self] = "waiting"
    /\ Len(issued'[self]) > Len(issued[self])

\* The bucket broadcasts of src_rank among the requests of rank self.
BucketBroadcasts(self, src_rank) ==
    {i \in DOMAIN bucket_requests[self] : bucket_requests[self][i].src_rank = src_rank}

\* C28: in every pass over a device, for every source rank, at most one
\* bucket broadcast is issued; when a param of the rank overflows the
\* bucket, the bucket is broadcast if something was packed and is not
\* broadcast if nothing was packed; when the whole list fits, the bucket is
\* broadcast once.
C28_BucketBroadcastOnlyWithData ==
    [][\A self \in Ranks :
          IssuesPass(self) =>
              \A src_rank \in Ranks :
              \A list \in {_per_device_params'[self][dev'[self]].lists[src_rank]} :
              \A k \in {FitLen(list, broadcast_buffer_size)} :
              \A sent \in {Cardinality(BucketBroadcasts(self, src_rank)')} :
                  /\ sent <= 1
                  /\ (k < Len(list) /\ k > 0) => sent = 1
                  /\ (k < Len(list) /\ k = 0) => sent = 0
                  /\ k = Len(list) => sent = 1]_vars

\* What the loop does instead: every source rank has one bucket broadcast
\* in every pass; the bucket that an overflowing param found empty goes out
\* empty, after the direct broadcasts of the rank.
C28_TrailingBucketAlways ==
    [][\A self \in Ranks :
          IssuesPass(self) =>
              \A src_rank \in Ranks :
              \A list \in {_per_device_params'[self][dev'[self]].lists[src_rank]} :
              \A k \in {FitLen(list, broadcast_buffer_size)} :
                  /\ Cardinality(BucketBroadcasts(self, src_rank)') = 1
                  /\ \A i \in BucketBroadcasts(self, src_rank)' :
                     \A req \in {bucket_requests'[self][i]} :
                        /\ Len(req.bucket_params) = k
                        /\ issued'[self][req.handle].what[1] = "bucket"
                        /\ \A h \in DOMAIN issued'[self] :
                              (/\ h > Len(issued[self])
                               /\ issued'[self][h].what[1] = "direct"
                               /\ issued'[self][h].what[2] \in Range(list))
                                  => (k > 0 <=> req.handle < h)]_vars

\* Rank self returns from a wait: one of its requests is done.
Waits(self) ==
    /\ pc[self] = "waiting"
    /\ <<bucket_requests[self], direct_requests[self]>>
          # <<bucket_requests'[self], direct_requests'[self]>>

\* The params recorded in a bucket request.
Bucketed(req) == {req.bucket_params[j][1] : j \in DOMAIN req.bucket_params}

\* C29: when a rank issues the broadcasts of a device, all of them are
\* issued, for every source rank and every param of the device, before it
\* waits, and none is issued between the waits of the pass; the bucket
\* requests are waited for in turn before any direct request; a wait on a
\* bucket changes the params recorded in that bucket and no other, each to
\* the elements [offset, end) of what the buffer of the source received,
\* and changes nothing when the bucket is the rank's own; a wait on a direct
\* request changes that param only; no wait changes the value of a param
\* the rank owns, and issuing the broadcasts copies nothing out.
C29_IssueAllThenBucketsThenDirects ==
    [][\A self \in Ranks :
          /\ IssuesPass(self) =>
                /\ Len(bucket_requests'[self]) + Len(direct_requests'[self])
                      = Len(issued'[self]) - Len(issued[self])
                /\ \A src_rank \in Ranks :
                   \A p \in Range(_per_device_params'[self][dev'[self]].lists[src_rank]) :
                      \/ \E i \in DOMAIN bucket_requests'[self] :
                            /\ p \in Bucketed(bucket_requests'[self][i])
                            /\ bucket_requests'[self][i].handle > Len(issued[self])
                      \/ \E i \in DOMAIN direct_requests'[self] :
                            /\ issued'[self][direct_requests'[self][i]].what = <<"direct", p>>
                            /\ direct_requests'[self][i] > Len(issued[self])
                /\ pc[self] = "idle" =>
                      \A p \in Params :
                          data'[self][p] # data[self][p] => Owner(self, p)' = self
          /\ Waits(self) =>
                /\ ~IssuesPass(self) => issued'[self] = issued[self]
                /\ bucket_requests[self] # <<>> =>
                      \A req \in {Head(bucket_requests[self])} :
                          /\ Completed(self, req.handle)
                          /\ IF IssuesPass(self) \/ pc'[self] # "waiting"
                             THEN /\ Tail(bucket_requests[self]) = <<>>
                                  /\ direct_requests[self] = <<>>
                             ELSE /\ bucket_requests'[self] = Tail(bucket_requests[self])
                                  /\ direct_requests'[self] = direct_requests[self]
                          /\ \A p \in Params \ Bucketed(req) :
                                data'[self][p] = data[self][p]
                          /\ \A j \in DOMAIN req.bucket_params :
                             \A p \in {req.bucket_params[j][1]} :
                                data'[self][p] =
                                    IF req.src_rank = self THEN data[self][p]
                                    ELSE SubSeq(Received(self, req.handle),
                                                req.bucket_params[j][2] + 1,
                                                req.bucket_params[j][3])
                /\ bucket_requests[self] = <<>> =>
                      \A handle \in {Head(direct_requests[self])} :
                          /\ Completed(self, handle)
                          /\ IssuesPass(self) \/ pc'[self] # "waiting"
                                \/ direct_requests'[self] = Tail(direct_requests[self])
                          /\ \A p \in Params :
                                data'[self][p] =
                                    IF issued[self][handle].what = <<"direct", p>>
                                    THEN Received(self, handle) ELSE data[self][p]
                /\ \A p \in ModelParams(self) :
                      Owner(self, p) = self => data'[self][p] = data[self][p]]_vars

\* A rank has waited for the bucket of another rank, which changed a param
\* of its own, while a direct request of the pass is still to be waited for,
\* and that rank's own bucket holds a param too.
C29_Witness ==
    \E self \in Built :
        /\ pc[self] = "waiting"
        /\ world_size = 2
        /\ bucket_requests[self] = <<>>
        /\ direct_requests[self] # <<>>
        /\ \E p, q \in ModelParams(self) :
              /\ Owner(self, p) # self
              /\ Owner(self, q) = self
              /\ numel[p] < broadcast_buffer_size
              /\ numel[q] < broadcast_buffer_size
              /\ data[self][p] = Tensor(p, 1)
              /\ data[self][q] = Tensor(q, 1)

\* The local optimizer of rank self has one group per global group, and its
\* group i holds the params of group i of the rank's share of the partition,
\* the cached one and the one computed from scratch.
LocalMatchesPartition(self) ==
    \A scratch \in {partition_parameters(self, <<>>, param_groups[self])} :
    \A cached \in {partition_parameters(self, _partition_parameters[self],
                                        param_groups[self])} :
        /\ Len(optim[self].param_groups) = Len(param_groups[self])
        /\ ParamLists(optim[self].param_groups) = ParamLists(scratch[self])
        /\ ParamLists(optim[self].param_groups) = ParamLists(cached[self])

\* C30: after construction and after any number of add_param_group() calls
\* the local optimizer has one group per global group, and its group i holds
\* exactly the params of partition_parameters()[rank][i]; the partition
\* computed again by add_param_group() gives every rank, in every group of
\* before, the params it held there.
C30_LocalGroupsFollowPartition ==
    /\ [](\A self \in Built : LocalMatchesPartition(self))
    /\ [][\A self \in Ranks :
             AddsGroup(self) =>
                 \A before \in {partition_parameters(self, _partition_parameters[self],
                                                     param_groups[self])} :
                 \A after \in {_partition_parameters'[self]} :
                 \A rank \in Ranks :
                     /\ Len(after[rank]) = Len(before[rank]) + 1
                     /\ \A i \in DOMAIN before[rank] :
                           after[rank][i].params = before[rank][i].params]_vars

\* Two groups were added, one after the other, on a rank of two that holds
\* params of the first group and of the last one.
C30_Witness ==
    \E self \in Built :
        /\ world_size = 2
        /\ pc[self] = "idle"
        /\ Len(param_groups[self]) = Len(params) + 2
        /\ LocalMatchesPartition(self)
        /\ optim[self].param_groups[1].params # <<>>
        /\ optim[self].param_groups[Len(param_groups[self])].params # <<>>

\* Rank self runs the constructor in this step.
BuildsOptimizer(self) ==
    /\ pc[self] = "new"
    /\ pc'[self] # "new"

\* The devices of the params the caller passed.
ParamDevices == {device[p] : p \in Range(GroupParams(params))}

\* C31: the constructor succeeds on every rank, for every non-empty list of
\* params and every world size, also when the rank's share of the first
\* group is empty and when rank 0 holds no param on some device: the
\* default device is set and every device has its scratch buffers.
C31_ConstructionAlwaysSucceeds ==
    [][\A self \in Ranks :
          BuildsOptimizer(self) =>
              /\ pc'[self] = "idle"
              /\ _device'[self] \in ParamDevices
              /\ DOMAIN _broadcast_buffers'[self] = ParamDevices]_vars

\* What the constructor does instead: it succeeds exactly when the rank
\* holds a param of the first group and rank 0 holds a param on every
\* device, and raises IndexError otherwise; when it succeeds the default
\* device is the one of the rank's first param and every device has one
\* buffer per rank.
C31_ConstructionNeedsFirstParams ==
    [][\A self \in Ranks :
          BuildsOptimizer(self) =>
              \A P \in {_partition_parameters'[self]} :
                  /\ pc'[self] \in {"idle", "IndexError"}
                  /\ pc'[self] = "idle" <=>
                        /\ P[self][1].params # <<>>
                        /\ \A d \in ParamDevices :
                              \E p \in Owned(P, 0) : device[p] = d
                  /\ pc'[self] = "idle" =>
                        /\ _device'[self] = device[P[self][1].params[1]]
                        /\ DOMAIN _broadcast_buffers'[self] = ParamDevices
                        /\ \A d \in ParamDevices :
                              DOMAIN _broadcast_buffers'[self][d] = Ranks]_vars

\* ------------------------------------------- groups added on other devices
\* Training with groups added between the steps, on any device: the params
\* that are in no group at construction keep the device they were drawn
\* with.
InitGrow ==
    /\ InitWith({"WORLD"})
    /\ NoPipe
    /\ \A p \in Unused(params) : numel[p] = 1

NextGrow ==
    \/ \E self \in Ranks : Construct(self)
    \/ \E self \in Ranks : AddParamGroup(self)
    \/ \E self \in Ranks : Backward(self)
    \/ \E self \in Ranks : Step(self)
    \/ \E self \in Ranks : WaitBucket(self)
    \/ \E self \in Ranks : WaitDirect(self)

SpecGrow == InitGrow /\ [][NextGrow]_vars

\* The devices of the table of rank self.
TableDevices(self) ==
    {_per_device_params[self][i].device : i \in DOMAIN _per_device_params[self]}

\* C32: when a rank calls step(), every device of its table of per-device
\* params has one scratch buffer per rank, of the size set at construction,
\* and step() finds the buffers of every device; the buffers are the ones
\* the constructor allocated, never allocated again.  This holds after
\* add_param_group() too, also for a param on a device that held none when
\* the optimizer was built.
C32_EveryDeviceHasBuffers ==
    [][\A self \in Ranks :
          /\ StepBegins(self) =>
                /\ pc'[self] # "KeyError"
                /\ \A d \in TableDevices(self)' :
                      /\ d \in DOMAIN _broadcast_buffers'[self]
                      /\ DOMAIN _broadcast_buffers'[self][d] = Ranks
                      /\ \A rank \in Ranks :
                            Len(_broadcast_buffers'[self][d][rank]) = broadcast_buffer_size
          /\ pc[self] \notin {"new", "IndexError"} =>
                /\ DOMAIN _broadcast_buffers'[self] = DOMAIN _broadcast_buffers[self]
                /\ \A d \in DOMAIN _broadcast_buffers[self] : \A rank \in Ranks :
                      Len(_broadcast_buffers'[self][d][rank])
                          = Len(_broadcast_buffers[self][d][rank])]_vars

\* What the code does instead: the buffers are those of the devices of the
\* params the constructor was given, whatever is added later; a step() that
\* comes to a device that is not among them raises KeyError, after the
\* broadcasts of the devices before it, and step() returns only when every
\* device of the table is among them.
C32_BuffersOfConstructionOnly ==
    [][\A self \in Ranks :
          /\ pc'[self] \notin {"new", "IndexError"} =>
                /\ DOMAIN _broadcast_buffers'[self] = ParamDevices
                /\ \A d \in ParamDevices : \A rank \in Ranks :
                      Len(_broadcast_buffers'[self][d][rank]) = broadcast_buffer_size
          /\ (pc[self] # "KeyError" /\ pc'[self] = "KeyError") =>
                _per_device_params'[self][dev'[self]].device \notin ParamDevices
          /\ (pc[self] # "new" /\ StepReturns(self)) =>
                TableDevices(self)' \subseteq ParamDevices]_vars

====
